---- MODULE Spec2Model ----
(***************************************************************************)
(* A model of the college-baseball-scraper repository.                     *)
(*                                                                         *)
(*   SpecBatch : scraper/async_scraper.py   scrape_batch / run_async_scrape*)
(*   SpecSync  : base44_integration.py      run_sync, push, fallback save  *)
(*   SpecParse : scraper/parse_game_log.py  parse_game_log and its parsers *)
(*   SpecFind  : scraper/find_player_url.py find_player_url                *)
(*   SpecCall  : the pure helpers (fuzzy_matcher, platform detection,      *)
(*               data_cleaner, the cleaning step of get_player_stats)      *)
(*   SpecRetry : scraper/error_handler.py   handle_retry                   *)
(*   SpecLog   : scraper/error_handler.py   log_error                      *)
(*                                                                         *)
(* Text is modelled as a sequence of one-character strings so that trim,   *)
(* lower-casing, replacement and substring tests are computed.             *)
(***************************************************************************)
EXTENDS Integers, Sequences, FiniteSets, TLC

VARIABLES
    \* ---- scrape_batch (async_scraper.py) ----
    batchPlayers,   \* the players argument: a sequence of player dicts
    max_concurrent, \* the admission limit argument
    semaphore,      \* the value of asyncio.Semaphore(max_concurrent)
    taskPc,         \* position of each sem_scrape task
    gatherPc,       \* the awaited gather: "awaiting" | "returned" | "raised"
    batchResults,   \* what scrape_batch returned to its caller
    loopClosed,     \* asyncio.run has shut the event loop down
    \* ---- run_sync (base44_integration.py) ----
    players,        \* the list fetched from the registry
    syncPc,         \* "start" | "loop" | "done" | "raised"
    idx,            \* index of the next player of the for loop
    success_count,
    error_count,
    summary,        \* the returned dict
    trail,          \* per processed player: what happened to it
    files,          \* output/*.json : set of [name, player] records
    \* ---- parse_game_log (parse_game_log.py) ----
    platform_type,
    page,           \* the tables of the player's page
    tabClickable,   \* the stats tab can be found and clicked
    navFails,       \* driver.get raises on the fallback's navigation
    parsePc,        \* "start" | "except" | "return" | "raise" | "returned" | "raised"
    game_log,       \* the records parse_game_log is about to return
    platformFound,  \* the platform path found a qualifying table
    genericFound,   \* the generic parser found a qualifying table
    genericRuns,    \* how many times the generic parser ran
    drivers,        \* drivers created
    quits,          \* driver.quit() calls
    \* ---- find_player_url (find_player_url.py) ----
    query,          \* [name, number, school]
    roster,         \* the player cards of the fetched roster page
    fetchOk,        \* requests.get + raise_for_status succeeded
    findPc,         \* "start" | "fetched" | "done"
    fetches,        \* number of roster fetches
    findResult,     \* the return value or the raised error
    \* ---- a call of one of the pure helpers ----
    call,           \* [fn, ...arguments]
    returned,       \* [raised, value] once the call is over
    callPc,         \* "start" | "done"
    \* ---- handle_retry (error_handler.py) ----
    history,        \* per wrapper call: outcomes of func's invocations so far
    attempt,        \* per wrapper call: the loop variable i
    retryPc,        \* per wrapper call: "loop" | "returned" | "raised"
    retryResult,    \* per wrapper call: what the caller got
    errorLog,       \* output/scraper_errors.json as a sequence of entries
    \* ---- log_error (error_handler.py), called by several tasks ----
    logPc,          \* per call: "start" | "read" | "done"
    errors,         \* per call: the local list read from the file
    logged,         \* every entry ever written, oldest first
    overlapped      \* a call read the file while another was about to write

batchVars == <<batchPlayers, max_concurrent, semaphore, taskPc, gatherPc,
               batchResults, loopClosed>>
syncVars  == <<players, syncPc, idx, success_count, error_count, summary,
               trail, files>>
parseVars == <<platform_type, page, tabClickable, navFails, parsePc, game_log,
               platformFound, genericFound, genericRuns, drivers, quits>>
findVars  == <<query, roster, fetchOk, findPc, fetches, findResult>>
callVars  == <<call, returned, callPc>>
retryVars == <<history, attempt, retryPc, retryResult, errorLog>>
logVars   == <<logPc, errors, logged, overlapped>>
vars == <<batchVars, syncVars, parseVars, findVars, callVars, retryVars, logVars>>

(***************************************************************************)
(* Each specification below runs one component; the variables of the       *)
(* others rest at these values.                                            *)
(***************************************************************************)
IdleBatch ==
    /\ batchPlayers = <<>> /\ max_concurrent = 1 /\ semaphore = 1
    /\ taskPc = <<>> /\ gatherPc = "idle" /\ batchResults = <<>>
    /\ loopClosed = FALSE

IdleSync ==
    /\ players = <<>> /\ syncPc = "idle" /\ idx = 1
    /\ success_count = 0 /\ error_count = 0
    /\ summary = [success_count |-> 0, error_count |-> 0, total |-> 0]
    /\ trail = <<>> /\ files = {}

IdleParse ==
    /\ platform_type = "generic" /\ page = <<>> /\ tabClickable = FALSE
    /\ navFails = FALSE /\ parsePc = "idle" /\ game_log = <<>>
    /\ platformFound = FALSE /\ genericFound = FALSE /\ genericRuns = 0
    /\ drivers = 0 /\ quits = 0

IdleFind ==
    /\ query = [name |-> <<>>, number |-> <<>>, school |-> "none"]
    /\ roster = <<>> /\ fetchOk = FALSE /\ findPc = "idle" /\ fetches = 0
    /\ findResult = [kind |-> "none"]

IdleCall ==
    /\ call = [fn |-> "none"]
    /\ returned = [raised |-> FALSE, value |-> "none"]
    /\ callPc = "idle"

IdleRetry ==
    /\ history = <<>> /\ attempt = <<>> /\ retryPc = <<>>
    /\ retryResult = <<>> /\ errorLog = <<>>

IdleLog ==
    /\ logPc = <<>> /\ errors = <<>> /\ logged = <<>> /\ overlapped = FALSE

(***************************************************************************)
(* Bounds                                                                  *)
(***************************************************************************)
MaxBatch == 3        \* longest players list given to scrape_batch
MaxLimit == 2        \* largest max_concurrent tried
MaxPlayers == 3      \* longest registry list given to run_sync
MaxTables == 2       \* most tables on a player page
MaxCards == 2        \* most cards on a roster page

(***************************************************************************)
(* Text helpers                                                            *)
(***************************************************************************)
Range(s) == { s[i] : i \in 1..Len(s) }

SeqsUpTo(S, n) == UNION { [1..k -> S] : k \in 0..n }

\* Python's  a in b  on strings
IsSubstring(a, b) ==
    \E i \in 0..(Len(b) - Len(a)) :
        \A k \in 1..Len(a) : b[i + k] = a[k]

\* str.lower()
UpperAlpha == <<"A","B","C","D","E","F","G","H","I","J","K","L","M",
                "N","O","P","Q","R","S","T","U","V","W","X","Y","Z">>
LowerAlpha == <<"a","b","c","d","e","f","g","h","i","j","k","l","m",
                "n","o","p","q","r","s","t","u","v","w","x","y","z">>
LowerChar(c) ==
    IF \E i \in 1..Len(UpperAlpha) : UpperAlpha[i] = c
    THEN LowerAlpha[CHOOSE i \in 1..Len(UpperAlpha) : UpperAlpha[i] = c]
    ELSE c
Lower(s) == [i \in 1..Len(s) |-> LowerChar(s[i])]

RECURSIVE LStrip(_)
LStrip(s) == IF s # <<>> /\ Head(s) = " " THEN LStrip(Tail(s)) ELSE s
RECURSIVE RStrip(_)
RStrip(s) ==
    IF s # <<>> /\ s[Len(s)] = " " THEN RStrip(SubSeq(s, 1, Len(s) - 1)) ELSE s
\* str.strip()
Strip(s) == LStrip(RStrip(s))

\* str.replace(" ", "_")
ReplaceSpace(s) == [i \in 1..Len(s) |-> IF s[i] = " " THEN "_" ELSE s[i]]

\* re.sub(r'\s+', ' ', s)
RECURSIVE CollapseSpaces(_)
CollapseSpaces(s) ==
    IF Len(s) < 2 THEN s
    ELSE IF s[1] = " " /\ s[2] = " " THEN CollapseSpaces(Tail(s))
    ELSE <<s[1]>> \o CollapseSpaces(Tail(s))

(***************************************************************************)
(* scrape_batch                                                            *)
(***************************************************************************)
\* a player dict of the batch: only the presence of the 'name' key matters
\* to sem_scrape, which reads player['name']
BatchPlayer == [id : 1..MaxBatch, hasName : BOOLEAN]

Tasks == 1..Len(batchPlayers)

\* tasks inside  async with semaphore  and suspended in asyncio.sleep
Inside == { i \in Tasks : taskPc[i] = "sleeping" }

\* Semaphore.acquire() without gate: a plausible slip
CanAcquire_NoGate(value) == TRUE
\* asyncio.Semaphore.acquire() proceeds without waiting only when value > 0
CanAcquire(value) == value > 0

InitBatch ==
    /\ batchPlayers \in
         { s \in SeqsUpTo(BatchPlayer, MaxBatch) : \A i \in 1..Len(s) : s[i].id = i }
    /\ max_concurrent \in 1..MaxLimit
    /\ semaphore = max_concurrent
    /\ taskPc = [i \in 1..Len(batchPlayers) |-> "pending"]
    /\ gatherPc = "awaiting"
    /\ batchResults = <<>>
    /\ loopClosed = FALSE

\* async with semaphore: acquire, log player['name'], suspend in sleep
Enter(i) ==
    /\ ~loopClosed
    /\ taskPc[i] = "pending"
    /\ CanAcquire(semaphore)
    /\ batchPlayers[i].hasName
    /\ semaphore' = semaphore - 1
    /\ taskPc' = [taskPc EXCEPT ![i] = "sleeping"]
    /\ UNCHANGED <<batchPlayers, max_concurrent, gatherPc, batchResults, loopClosed>>
    /\ UNCHANGED <<syncVars, parseVars, findVars, callVars, retryVars, logVars>>

\* acquire, then player['name'] raises KeyError before any suspension point;
\* __aexit__ releases the permit and the task ends with the exception
EnterAndFail(i) ==
    /\ ~loopClosed
    /\ taskPc[i] = "pending"
    /\ CanAcquire(semaphore)
    /\ ~batchPlayers[i].hasName
    /\ taskPc' = [taskPc EXCEPT ![i] = "failed"]
    /\ UNCHANGED <<batchPlayers, max_concurrent, semaphore, gatherPc, batchResults,
                   loopClosed>>
    /\ UNCHANGED <<syncVars, parseVars, findVars, callVars, retryVars, logVars>>

\* sleep is over: the task returns its dict, __aexit__ releases the permit
Leave(i) ==
    /\ ~loopClosed
    /\ taskPc[i] = "sleeping"
    /\ semaphore' = semaphore + 1
    /\ taskPc' = [taskPc EXCEPT ![i] = "done"]
    /\ UNCHANGED <<batchPlayers, max_concurrent, gatherPc, batchResults, loopClosed>>
    /\ UNCHANGED <<syncVars, parseVars, findVars, callVars, retryVars, logVars>>

\* the dict a finished task returns
TaskResult(i) == [player |-> batchPlayers[i], success |-> TRUE]

\* await asyncio.gather(*tasks): every child finished normally, the list of
\* results in input order is returned
GatherReturn ==
    /\ gatherPc = "awaiting"
    /\ \A i \in Tasks : taskPc[i] = "done"
    /\ gatherPc' = "returned"
    /\ batchResults' = [i \in Tasks |-> TaskResult(i)]
    /\ UNCHANGED <<batchPlayers, max_concurrent, semaphore, taskPc, loopClosed>>
    /\ UNCHANGED <<syncVars, parseVars, findVars, callVars, retryVars, logVars>>

\* gather without return_exceptions: the first child exception is raised at
\* the await; the other children are left running, nothing is returned
GatherRaise ==
    /\ gatherPc = "awaiting"
    /\ \E i \in Tasks : taskPc[i] = "failed"
    /\ gatherPc' = "raised"
    /\ UNCHANGED <<batchPlayers, max_concurrent, semaphore, taskPc, batchResults,
                   loopClosed>>
    /\ UNCHANGED <<syncVars, parseVars, findVars, callVars, retryVars, logVars>>

\* run_async_scrape: asyncio.run ends when scrape_batch has returned or
\* raised, and cancels every task that is still unfinished
RunExit ==
    /\ gatherPc \in {"returned", "raised"}
    /\ ~loopClosed
    /\ loopClosed' = TRUE
    /\ taskPc' = [i \in Tasks |->
                    IF taskPc[i] \in {"pending", "sleeping"} THEN "cancelled"
                    ELSE taskPc[i]]
    /\ semaphore' = semaphore + Cardinality(Inside)
    /\ UNCHANGED <<batchPlayers, max_concurrent, gatherPc, batchResults>>
    /\ UNCHANGED <<syncVars, parseVars, findVars, callVars, retryVars, logVars>>

NextBatch ==
    \/ \E i \in Tasks : Enter(i)
    \/ \E i \in Tasks : EnterAndFail(i)
    \/ \E i \in Tasks : Leave(i)
    \/ GatherReturn
    \/ GatherRaise
    \/ RunExit

BatchStart ==
    InitBatch /\ IdleSync /\ IdleParse /\ IdleFind /\ IdleCall /\ IdleRetry
        /\ IdleLog

SpecBatch == BatchStart /\ [][NextBatch]_vars

\* C1: in scrape_batch with admission limit max_concurrent, the number of
\* sem_scrape tasks inside the gated section never exceeds the limit, and
\* the permits held plus the permits free always add up to the limit.
C1_AdmissionBound ==
    gatherPc # "idle" =>
        /\ Cardinality(Inside) <= max_concurrent
        /\ semaphore + Cardinality(Inside) = max_concurrent

\* the gate is full while another task is still waiting to be admitted
C1_Witness ==
    /\ gatherPc = "awaiting"
    /\ Cardinality(Inside) = max_concurrent
    /\ max_concurrent >= 2
    /\ \E i \in Tasks : taskPc[i] = "pending" /\ batchPlayers[i].hasName

\* C4: when one task of the batch raises, no other task is cancelled and
\* the result of every other task is delivered to the caller of the batch.
C4_FailureLeavesOthersAlone ==
    (gatherPc # "idle" /\ \E f \in Tasks : taskPc[f] = "failed") =>
        /\ \A i \in Tasks : taskPc[i] # "cancelled"
        /\ gatherPc \in {"returned", "raised"} =>
              \A i \in Tasks :
                  batchPlayers[i].hasName =>
                      \E k \in 1..Len(batchResults) : batchResults[k] = TaskResult(i)

(***************************************************************************)
(* run_sync, push_stats_to_base44, save_to_json_fallback                   *)
(***************************************************************************)
required_keys == {"id", "name", "number", "school"}

PlayerNames == { <<"a", " ", "b">>, <<"c">> }
SchoolNames == { <<"s">> }
\* the keys a registry descriptor carries: all required ones, or one missing
KeySets == { required_keys, required_keys \ {"number"} }

PlayerNumbers == { <<"8">> }

Descriptor ==
    [name : PlayerNames, school : SchoolNames, keys : KeySets,
     number : PlayerNumbers]

\* registry ids are the players' identities: distinct within a batch
WithIds(s) ==
    [i \in 1..Len(s) |->
        [id |-> i, name |-> s[i].name, school |-> s[i].school, keys |-> s[i].keys,
         number |-> s[i].number]]

\* what the outside world does during one player's iteration
SchoolKnown == BOOLEAN                      \* get_school_config found it
FindOutcomes == {"url", "error"}            \* find_player_url returned / raised
ExtractOutcomes == {"raise", "empty", "games"}  \* the game-log extraction
HttpOutcomes == {"ok", "http_error", "timeout", "other"}
IoOutcomes == {"ok", "io_error"}

\* scraper_api.get_player_stats: raises when the school is unknown (None has
\* no .get), otherwise returns a dict; "games" is present only on success.
\* Its two calls (find_player_url, the game-log extraction) are guarded by
\* try/except and their outcomes are inputs here: the call sites disagree
\* with the callees' signatures, so only the return contract is modelled.
get_player_stats(known, found, extracted) ==
    IF ~known THEN [raised |-> TRUE, success |-> FALSE, games |-> <<>>]
    ELSE IF found = "error" THEN [raised |-> FALSE, success |-> FALSE, games |-> <<>>]
    ELSE IF extracted = "raise" THEN [raised |-> FALSE, success |-> FALSE, games |-> <<>>]
    ELSE IF extracted = "empty" THEN [raised |-> FALSE, success |-> TRUE, games |-> <<>>]
    ELSE [raised |-> FALSE, success |-> TRUE, games |-> <<"game">>]

\* the push without its last except clause
push_stats_to_base44_NoCatchAll(http) ==
    CASE http = "ok" -> "true"
      [] http \in {"http_error", "timeout"} -> "false"
      [] OTHER -> "raise"
\* push_stats_to_base44: True on a 2xx answer; requests.RequestException
\* (HTTP error, timeout) and every other exception are caught and give False
push_stats_to_base44(http) ==
    CASE http = "ok" -> "true"
      [] http \in {"http_error", "timeout"} -> "false"
      [] OTHER -> "false"

\* datetime.utcnow().isoformat(): some reading of the clock
utcnow == <<"2","0","2","6","-","1","1","-","0","1","T","1","2",":","0","0",":","0","0">>

\* the payload push_stats_to_base44 posts; a descriptor carries no season
payload(player, stats_result) ==
    [playerId |-> player.id,
     name |-> player.name,
     number |-> player.number,
     school |-> player.school,
     season |-> <<"2","0","2","6">>,
     games |-> stats_result.games,
     last_updated |-> utcnow \o <<"Z">>]

\* f"output/{safe_name}_{safe_school}.json"
FallbackFilename(player) ==
    ReplaceSpace(player.name) \o <<"_">> \o ReplaceSpace(player.school)

\* save_to_json_fallback: open(filename, "w") replaces what was there; any
\* exception while writing is caught and logged
save_to_json_fallback(store, player, result, io) ==
    IF io = "ok"
    THEN [files |-> { f \in store : f.name # FallbackFilename(player) }
                      \cup { [name |-> FallbackFilename(player),
                              player |-> player.id,
                              stats |-> result.games] },
          written |-> TRUE]
    ELSE [files |-> store, written |-> FALSE]

\* the fallback is saved whatever the push returned
NeedsFallback_Always(pushed) == TRUE
\* if push_stats_to_base44(...): ... else: save_to_json_fallback(...)
NeedsFallback(pushed) == pushed = "false"

\* the counter a path of the loop body increments
NoGamesCounts_Nothing == "none"
\* else: logger.warning("No stats found"); error_count += 1
NoGamesCounts == "error"

\* the try block of the loop body for one player
TryBlock(player, known, found, extracted, http, io) ==
    LET result == get_player_stats(known, found, extracted) IN
    IF result.raised
    THEN [raised |-> TRUE, scrape |-> "raised", push |-> "none", fallback |-> "none",
          counted |-> "none", files |-> files]
    ELSE IF result.games # <<>>
    THEN LET pushed == push_stats_to_base44(http) IN
         IF pushed = "raise"
         THEN [raised |-> TRUE, scrape |-> "games", push |-> "failed",
               fallback |-> "none", counted |-> "none", files |-> files]
         ELSE IF ~NeedsFallback(pushed)
         THEN [raised |-> FALSE, scrape |-> "games",
               push |-> IF pushed = "true" THEN "ok" ELSE "failed",
               fallback |-> "none",
               counted |-> IF pushed = "true" THEN "success" ELSE "error",
               files |-> files]
         ELSE LET saved == save_to_json_fallback(files, player, result, io) IN
              [raised |-> FALSE, scrape |-> "games",
               push |-> IF pushed = "true" THEN "ok" ELSE "failed",
               fallback |-> IF saved.written THEN "written" ELSE "failed",
               counted |-> IF pushed = "true" THEN "success" ELSE "error",
               files |-> saved.files]
    ELSE [raised |-> FALSE,
          scrape |-> IF result.success THEN "empty" ELSE "error",
          push |-> "none", fallback |-> "none", counted |-> NoGamesCounts,
          files |-> files]

\* an except clause that lets the exception through
ExceptClause_Reraise(outcome) == outcome
\* except Exception as e: logger.error(...); error_count += 1
ExceptClause(outcome) ==
    IF outcome.raised
    THEN [outcome EXCEPT !.raised = FALSE, !.counted = "error"]
    ELSE outcome

\* a loop body without the test for the required keys
LoopBody_NoKeyTest(player, known, found, extracted, http, io) ==
    ExceptClause(TryBlock(player, known, found, extracted, http, io))
\* one pass of  for player in players
LoopBody(player, known, found, extracted, http, io) ==
    IF ~(required_keys \subseteq player.keys)
    THEN [raised |-> FALSE, scrape |-> "skipped", push |-> "none",
          fallback |-> "none", counted |-> "error", files |-> files]
    ELSE ExceptClause(TryBlock(player, known, found, extracted, http, io))

InitSync ==
    /\ \E s \in SeqsUpTo(Descriptor, MaxPlayers) : players = WithIds(s)
    /\ syncPc = "start"
    /\ idx = 1
    /\ success_count = 0
    /\ error_count = 0
    /\ summary = [success_count |-> 0, error_count |-> 0, total |-> 0]
    /\ trail = <<>>
    /\ files = {}

\* players = fetch_players_from_base44(); if not players: return zeros
SyncStart ==
    /\ syncPc = "start"
    /\ syncPc' = IF players = <<>> THEN "done" ELSE "loop"
    /\ UNCHANGED <<players, idx, success_count, error_count, summary, trail, files>>
    /\ UNCHANGED <<batchVars, parseVars, findVars, callVars, retryVars, logVars>>

SyncIterate ==
    /\ syncPc = "loop"
    /\ idx <= Len(players)
    /\ \E known \in SchoolKnown, found \in FindOutcomes, extracted \in ExtractOutcomes,
          http \in HttpOutcomes, io \in IoOutcomes :
        LET o == LoopBody(players[idx], known, found, extracted, http, io) IN
        /\ syncPc' = IF o.raised THEN "raised" ELSE "loop"
        /\ success_count' = success_count + (IF o.counted = "success" THEN 1 ELSE 0)
        /\ error_count' = error_count + (IF o.counted = "error" THEN 1 ELSE 0)
        /\ files' = o.files
        /\ trail' = Append(trail, [player |-> players[idx].id, scrape |-> o.scrape,
                                   push |-> o.push, fallback |-> o.fallback,
                                   counted |-> o.counted,
                                   payload |->
                                      IF o.push = "none" THEN <<>>
                                      ELSE payload(players[idx],
                                             get_player_stats(known, found, extracted)),
                                   file |-> FallbackFilename(players[idx])])
        /\ idx' = idx + 1
    /\ UNCHANGED <<players, summary>>
    /\ UNCHANGED <<batchVars, parseVars, findVars, callVars, retryVars, logVars>>

\* the loop is over: return the summary
SyncReturn ==
    /\ syncPc = "loop"
    /\ idx > Len(players)
    /\ syncPc' = "done"
    /\ summary' = [success_count |-> success_count, error_count |-> error_count,
                   total |-> Len(players)]
    /\ UNCHANGED <<players, idx, success_count, error_count, trail, files>>
    /\ UNCHANGED <<batchVars, parseVars, findVars, callVars, retryVars, logVars>>

NextSync == SyncStart \/ SyncIterate \/ SyncReturn

SyncBegin ==
    InitSync /\ IdleBatch /\ IdleParse /\ IdleFind /\ IdleCall /\ IdleRetry
        /\ IdleLog

SpecSync == SyncBegin /\ [][NextSync]_vars

Processed == 1..Len(trail)

C3_CountsAddUp ==
    /\ syncPc # "idle" => success_count + error_count = Len(trail)
    /\ \A i \in Processed : trail[i].counted \in {"success", "error"}
    /\ success_count = Cardinality({ i \in Processed : trail[i].counted = "success" })
    /\ syncPc = "done" =>
          /\ summary.total = Len(players)
          /\ summary.success_count + summary.error_count = summary.total

\* a full batch returned with every kind of outcome in it
C3_Witness ==
    /\ syncPc = "done"
    /\ Len(players) = MaxPlayers
    /\ \E i, j, k \in Processed :
          /\ trail[i].scrape = "skipped"
          /\ trail[j].scrape = "empty"
          /\ trail[k].counted = "success"

\* C5: when the push of a player's result fails, no exception reaches the
\* sync loop, the fallback save is made for that player (its file exists
\* unless the write itself failed, and a failed write is swallowed too), the
\* player is counted as an error and the cycle goes on to the last player.
C5_PushFailureIsNonFatal ==
    /\ syncPc # "raised"
    /\ \A i \in Processed :
          trail[i].push = "failed" =>
              /\ trail[i].fallback \in {"written", "failed"}
              /\ trail[i].counted = "error"
              /\ trail[i].fallback = "written" =>
                    \E f \in files : f.name = trail[i].file
    /\ syncPc = "done" => Len(trail) = Len(players)

\* a push that failed and whose fallback write failed as well, followed
\* by a player whose push succeeded
C5_Witness ==
    /\ syncPc = "done"
    /\ \E i, j \in Processed :
          /\ i < j
          /\ trail[i].push = "failed" /\ trail[i].fallback = "failed"
          /\ trail[j].push = "ok"

\* C6 as stated: a fallback record is written for a player if and only if a
\* push was attempted for that player and failed.
C6_WrittenIffPushFailed ==
    \A i \in Processed :
        (trail[i].fallback = "written") <=> (trail[i].push = "failed")

\* C6 amended: the fallback save is attempted if and only if a push was
\* attempted and failed; a record is written only for such a player (the
\* write itself may fail, leaving none); no file ever holds the record of a
\* player whose push succeeded or was never attempted.
C6_FallbackOnlyAfterFailedPush ==
    /\ \A i \in Processed :
          /\ (trail[i].fallback # "none") <=> (trail[i].push = "failed")
          /\ (trail[i].fallback = "written") => (trail[i].push = "failed")
    /\ \A f \in files :
          \E i \in Processed :
              trail[i].player = f.player /\ trail[i].push = "failed"
                  /\ trail[i].fallback = "written"

\* a cycle with a written fallback, a failed fallback write and a
\* successful push
C6_Witness ==
    /\ syncPc = "done"
    /\ \E i, j, k \in Processed :
          /\ trail[i].fallback = "written"
          /\ trail[j].fallback = "failed"
          /\ trail[k].push = "ok"

\* C7: fallback storage is keyed by player identity: when the pushes of two
\* distinct players both fail and both fallback writes succeed, both
\* records exist at the end of the cycle.
C7_FallbackKeyedByIdentity ==
    syncPc = "done" =>
        \A i, j \in Processed :
            (i # j /\ trail[i].fallback = "written" /\ trail[j].fallback = "written")
                => \E f \in files : f.player = trail[i].player

(***************************************************************************)
(* parse_game_log and its three parsers                                    *)
(***************************************************************************)
Date == <<"D","a","t","e">>
Opponent == <<"O","p","p","o","n","e","n","t">>
Total == <<"T","o","t","a","l">>
AB == <<"A","B">>
Hits == <<"H">>

\* the rows of a table body, as lists of td texts
GameRow == << <<"2","/","1","4">>, <<"G","S","U">>, <<"4">> >>
TotalRow == << Total, <<>>, <<"4","0">> >>
TotalsRow == << <<"T","o","t","a","l","s">>, <<>>, <<"4","0">> >>
BlankDateRow == << <<>>, <<"G","S","U">>, <<"1">> >>
ShortRow == << <<"2","/","1","4">>, <<"G","S","U">> >>

TableBodies ==
    { <<>>, <<GameRow>>, <<TotalRow, GameRow>>, <<TotalsRow>>,
      <<ShortRow, BlankDateRow>> }

\* the th texts of a table and whether its class attribute contains "stats"
TableHeads ==
    { [headers |-> <<Date, Opponent, AB>>, stats |-> TRUE],
      [headers |-> <<Date, Opponent, AB>>, stats |-> FALSE],
      [headers |-> << <<"G","a","m","e">>, AB, Hits >>, stats |-> TRUE],
      [headers |-> << <<"N","a","m","e">>, AB, Hits >>, stats |-> FALSE] }

TableSet ==
    { [headers |-> h.headers, stats |-> h.stats, rows |-> b] :
        h \in TableHeads, b \in TableBodies }

Platforms == {"sidearm", "prestosports", "ncaa", "generic"}

Min(a, b) == IF a < b THEN a ELSE b

\* game_data: for i, header in enumerate(headers): if i < len(cells):
\*     game_data[header] = cells[i].get_text().strip()
GameData(headers, cells) ==
    LET n == Min(Len(headers), Len(cells)) IN
    [h \in { headers[i] : i \in 1..n } |->
        Strip(cells[CHOOSE i \in 1..n :
                      /\ headers[i] = h
                      /\ \A j \in 1..n : headers[j] = h => j <= i])]

\* dict.get(key), with "" standing for a missing key (both are falsy)
Get(d, key) == IF key \in DOMAIN d THEN d[key] ELSE <<>>

\* ' '.join(headers)
RECURSIVE JoinSpace(_)
JoinSpace(hs) ==
    IF hs = <<>> THEN <<>>
    ELSE IF Len(hs) = 1 THEN hs[1]
    ELSE hs[1] \o <<" ">> \o JoinSpace(Tail(hs))

\* --- header tests ---
SidearmQualifies(t) == Date \in Range(t.headers) /\ Opponent \in Range(t.headers)
PrestoQualifies(t) ==
    t.stats /\ (Date \in Range(t.headers) \/ Opponent \in Range(t.headers))
GenericQualifies(t) ==
    \E keyword \in { <<"d","a","t","e">>, <<"o","p","p","o","n","e","n","t">>,
                     <<"g","a","m","e">> } :
        IsSubstring(keyword, Lower(JoinSpace(t.headers)))

\* --- row tests ---
\* the sidearm row test without the season-total filter
SidearmKeeps_NoTotalFilter(t, cells) ==
    /\ Len(cells) >= 3
    /\ Get(GameData(t.headers, cells), Date) # <<>>
\* if len(cells) < 3: continue ... if game_data.get('Date') and
\* 'Total' not in game_data.get('Date', '')
SidearmKeeps(t, cells) ==
    /\ Len(cells) >= 3
    /\ Get(GameData(t.headers, cells), Date) # <<>>
    /\ ~IsSubstring(Total, Get(GameData(t.headers, cells), Date))
\* if len(cells) < 3: continue ... if game_data.get('Date')
PrestoKeeps(t, cells) ==
    /\ Len(cells) >= 3
    /\ Get(GameData(t.headers, cells), Date) # <<>>
\* if len(cells) >= 3: ... if game_data
GenericKeeps(t, cells) ==
    /\ Len(cells) >= 3
    /\ DOMAIN GameData(t.headers, cells) # {}

\* the header test and the row test of the named parser
Qualifies(parser, t) ==
    CASE parser = "sidearm" -> SidearmQualifies(t)
      [] parser = "prestosports" -> PrestoQualifies(t)
      [] OTHER -> GenericQualifies(t)
Keeps(parser, t, cells) ==
    CASE parser = "sidearm" -> SidearmKeeps(t, cells)
      [] parser = "prestosports" -> PrestoKeeps(t, cells)
      [] OTHER -> GenericKeeps(t, cells)

\* the records of one table, in row order
RECURSIVE RowsOf(_, _, _)
RowsOf(parser, t, rows) ==
    IF rows = <<>> THEN <<>>
    ELSE (IF Keeps(parser, t, Head(rows))
          THEN <<GameData(t.headers, Head(rows))>> ELSE <<>>)
         \o RowsOf(parser, t, Tail(rows))

\* for table in tables: if <header test>: for row in rows: ...
RECURSIVE Collect(_, _)
Collect(parser, tables) ==
    IF tables = <<>> THEN <<>>
    ELSE (IF Qualifies(parser, Head(tables))
          THEN RowsOf(parser, Head(tables), Head(tables).rows) ELSE <<>>)
         \o Collect(parser, Tail(tables))

\* parse_sidearm_game_log: navigation, stats tab (a failure raises), best-
\* effort season selection, table scan; raises when nothing was collected
parse_sidearm_game_log(pg, navOk, clickable) ==
    IF ~navOk \/ ~clickable
    THEN [raised |-> TRUE, games |-> <<>>]
    ELSE LET games == Collect("sidearm", pg) IN
         IF games = <<>> THEN [raised |-> TRUE, games |-> <<>>]
         ELSE [raised |-> FALSE, games |-> games]

\* parse_prestosports_game_log: a stats tab that cannot be clicked is
\* ignored; returns whatever was collected, also nothing
parse_prestosports_game_log(pg, navOk) ==
    IF ~navOk THEN [raised |-> TRUE, games |-> <<>>]
    ELSE [raised |-> FALSE, games |-> Collect("prestosports", pg)]

\* parse_generic_game_log: returns whatever was collected, also nothing
parse_generic_game_log(pg, navOk) ==
    IF ~navOk THEN [raised |-> TRUE, games |-> <<>>]
    ELSE [raised |-> FALSE, games |-> Collect("generic", pg)]

\* some table of the page passes the header test of the named parser
FoundBy(parser, pg) == \E i \in 1..Len(pg) : Qualifies(parser, pg[i])

InitParse ==
    /\ platform_type \in Platforms
    /\ page \in SeqsUpTo(TableSet, MaxTables)
    /\ navFails \in BOOLEAN
    /\ tabClickable \in BOOLEAN
    /\ navFails => ~tabClickable
    /\ parsePc = "start"
    /\ game_log = <<>>
    /\ platformFound = FALSE
    /\ genericFound = FALSE
    /\ genericRuns = 0
    /\ drivers = 0
    /\ quits = 0

\* driver = setup_driver(); try: route to the platform's parser
PlatformPath ==
    /\ parsePc = "start"
    /\ drivers' = drivers + 1
    /\ LET r == CASE platform_type = "sidearm" ->
                       parse_sidearm_game_log(page, ~navFails, tabClickable)
                  [] platform_type = "prestosports" ->
                       parse_prestosports_game_log(page, ~navFails)
                  [] OTHER -> parse_generic_game_log(page, ~navFails)
       IN /\ parsePc' = IF r.raised THEN "except" ELSE "return"
          /\ game_log' = r.games
          /\ platformFound' = (~navFails /\ FoundBy(platform_type, page)
                                /\ (platform_type = "sidearm" => tabClickable))
          /\ genericRuns' =
                IF platform_type \in {"sidearm", "prestosports"} THEN genericRuns
                ELSE genericRuns + 1
          /\ genericFound' =
                IF platform_type \in {"sidearm", "prestosports"} THEN FALSE
                ELSE ~navFails /\ FoundBy("generic", page)
    /\ UNCHANGED <<platform_type, page, tabClickable, navFails, quits>>
    /\ UNCHANGED <<batchVars, syncVars, findVars, callVars, retryVars, logVars>>

\* except Exception: for a platform other than 'generic' try the generic
\* parser and return its result; anything raised in here becomes ValueError
ExceptPath ==
    /\ parsePc = "except"
    /\ IF platform_type # "generic"
       THEN LET r == parse_generic_game_log(page, ~navFails) IN
            /\ parsePc' = IF r.raised THEN "raise" ELSE "return"
            /\ game_log' = r.games
            /\ genericRuns' = genericRuns + 1
            /\ genericFound' = (~navFails /\ FoundBy("generic", page))
       ELSE /\ parsePc' = "raise"
            /\ UNCHANGED <<game_log, genericRuns, genericFound>>
    /\ UNCHANGED <<platform_type, page, tabClickable, navFails, platformFound,
                   drivers, quits>>
    /\ UNCHANGED <<batchVars, syncVars, findVars, callVars, retryVars, logVars>>

\* a finally clause that leaves the driver running
FinallyQuit_LeavesDriver ==
    /\ parsePc \in {"return", "raise"}
    /\ parsePc' = IF parsePc = "return" THEN "returned" ELSE "raised"
    /\ UNCHANGED <<platform_type, page, tabClickable, navFails, game_log,
                   platformFound, genericFound, genericRuns, drivers, quits>>
    /\ UNCHANGED <<batchVars, syncVars, findVars, callVars, retryVars, logVars>>

\* finally: driver.quit(); then the pending return or raise takes effect
FinallyQuit ==
    /\ parsePc \in {"return", "raise"}
    /\ quits' = quits + 1
    /\ parsePc' = IF parsePc = "return" THEN "returned" ELSE "raised"
    /\ UNCHANGED <<platform_type, page, tabClickable, navFails, game_log,
                   platformFound, genericFound, genericRuns, drivers>>
    /\ UNCHANGED <<batchVars, syncVars, findVars, callVars, retryVars, logVars>>

NextParse == PlatformPath \/ ExceptPath \/ FinallyQuit

ParseBegin ==
    InitParse /\ IdleBatch /\ IdleSync /\ IdleFind /\ IdleCall /\ IdleRetry
        /\ IdleLog

SpecParse == ParseBegin /\ [][NextParse]_vars

\* C8: on every path of parse_game_log no row whose date cell contains
\* "Total" is emitted as a game record.
C8_NoTotalRowEmitted ==
    parsePc \in {"return", "returned"} =>
        \A k \in 1..Len(game_log) : ~IsSubstring(Total, Get(game_log[k], Date))

\* C9: whenever the platform path and the generic parser both fail to find
\* a qualifying game-log table, parse_game_log raises; it never returns (an
\* empty sequence) in that case.
C9_RaisesWhenBothPathsFail ==
    (parsePc \in {"returned", "raised"} /\ ~platformFound /\ ~genericFound)
        => parsePc = "raised"

(***************************************************************************)
(* find_player_url                                                         *)
(***************************************************************************)
\* config.SCHOOLS: every configured school is of type "sidearm"
SCHOOLS == {"Belmont", "Tennessee", "Vanderbilt", "Lipscomb"}
SchoolDomain(school) ==
    CASE school = "Belmont" -> "belmontbruins.com"
      [] school = "Tennessee" -> "utsports.com"
      [] school = "Vanderbilt" -> "vucommodores.com"
      [] OTHER -> "lipscombsports.com"

QuerySchools == {"Belmont", "Nowhere"}
QueryNames == { <<"A","l"," ","D","a","y">> }
QueryNumbers == { <<"8">>, <<" ","9">> }

\* what a roster card shows; name/number "absent" when the card has no
\* element for it; href <<>> when no link with an href is found
CardNames ==
    { <<"A","l"," ","D","a","y">>, <<" ","A","L"," "," ","D","A","Y">>,
      <<"A","l"," ","D","a","y","s">>, <<"B","o"," ","L","e","e">> }
CardNumbers == { <<"8">>, <<" ","8"," ">>, <<"9">> }
CardHrefs == { <<>>, <<"/","p">> }
Absent == <<"absent">>

CardSet ==
    { [name |-> n, number |-> k, href |-> h] :
        n \in CardNames, k \in CardNumbers, h \in CardHrefs }
    \cup { [name |-> Absent, number |-> <<"8">>, href |-> <<"/","p">>],
           [name |-> <<"A","l"," ","D","a","y">>, number |-> Absent,
            href |-> <<"h","t","t","p",":","p">>] }

\* find_player_url.normalize_name: re.sub(r'\s+', ' ', name.lower().strip())
FindNormalizeName(name) == CollapseSpaces(Lower(Strip(name)))

\* name_match = normalized_player in card_name or card_name in normalized_player
NameMatch(player_name, card_text) ==
    \/ IsSubstring(FindNormalizeName(player_name), FindNormalizeName(card_text))
    \/ IsSubstring(FindNormalizeName(card_text), FindNormalizeName(player_name))

\* card_number = number_elem.get_text().strip() if number_elem else ""
CardNumber(card) == IF card.number = Absent THEN <<>> ELSE Strip(card.number)

\* a number test that lets every card through
NumberMatch_Ignored(jersey_number, card) == TRUE
\* jersey_str = str(jersey_number).strip(); number_match = jersey_str == card_number
NumberMatch(jersey_number, card) == Strip(jersey_number) = CardNumber(card)

StartsWith(s, prefix) ==
    Len(s) >= Len(prefix) /\ SubSeq(s, 1, Len(prefix)) = prefix

\* make the href absolute
ResolveUrl(school, href) ==
    IF StartsWith(href, <<"/">>) THEN <<"https://", SchoolDomain(school)>> \o href
    ELSE IF StartsWith(href, <<"h","t","t","p">>) THEN href
    ELSE <<"https://", SchoolDomain(school), "/sports/baseball", "/">> \o href

\* the card the for loop returns from: the first one that has a name
\* element, passes both tests and has a link with an href
Accepts(q, card) ==
    /\ card.name # Absent
    /\ NameMatch(q.name, card.name)
    /\ NumberMatch(q.number, card)
    /\ card.href # <<>>

\* a report that never counts the cards
CandidatesFound_Zero(cards) == 0
\* "Found {len(player_cards)} players on page"; the message for an empty
\* selection says "No players found on roster page"
CandidatesFound(cards) == Len(cards)

ScanRoster(q, cards) ==
    IF cards = <<>>
    THEN [kind |-> "error", exc |-> "ValueError", msg |-> "no_players",
          count |-> CandidatesFound(cards)]
    ELSE IF \E i \in 1..Len(cards) : Accepts(q, cards[i])
    THEN LET i == CHOOSE i \in 1..Len(cards) :
                    /\ Accepts(q, cards[i])
                    /\ \A j \in 1..(i - 1) : ~Accepts(q, cards[j])
         IN [kind |-> "url", url |-> ResolveUrl(q.school, cards[i].href),
             platform |-> "sidearm", card |-> i]
    ELSE [kind |-> "error", exc |-> "ValueError", msg |-> "not_found",
          count |-> CandidatesFound(cards)]

InitFind ==
    /\ query \in [name : QueryNames, number : QueryNumbers, school : QuerySchools]
    /\ fetchOk \in BOOLEAN
    /\ roster \in SeqsUpTo(CardSet, MaxCards)
    /\ (query.school \notin SCHOOLS => ~fetchOk)
    /\ (~fetchOk => roster = <<>>)
    /\ findPc = "start"
    /\ fetches = 0
    /\ findResult = [kind |-> "none"]

\* SCHOOLS.get(school); requests.get(roster_url, timeout=10); raise_for_status
FindFetch ==
    /\ findPc = "start"
    /\ IF query.school \notin SCHOOLS
       THEN /\ findPc' = "done"
            /\ findResult' = [kind |-> "error", exc |-> "ValueError",
                               msg |-> "school_not_found", count |-> 0]
            /\ UNCHANGED fetches
       ELSE /\ fetches' = fetches + 1
            /\ IF fetchOk
               THEN findPc' = "fetched" /\ UNCHANGED findResult
               ELSE /\ findPc' = "done"
                    /\ findResult' =
                          [kind |-> "error", exc |-> "ValueError",
                           msg |-> "fetch_failed", count |-> 0]
    /\ UNCHANGED <<query, roster, fetchOk>>
    /\ UNCHANGED <<batchVars, syncVars, parseVars, callVars, retryVars, logVars>>

\* soup.select(roster_card) and the search loop
FindScan ==
    /\ findPc = "fetched"
    /\ findPc' = "done"
    /\ findResult' = ScanRoster(query, roster)
    /\ UNCHANGED <<query, roster, fetchOk, fetches>>
    /\ UNCHANGED <<batchVars, syncVars, parseVars, callVars, retryVars, logVars>>

NextFind == FindFetch \/ FindScan

FindBegin ==
    InitFind /\ IdleBatch /\ IdleSync /\ IdleParse /\ IdleCall /\ IdleRetry
        /\ IdleLog

SpecFind == FindBegin /\ [][NextFind]_vars

\* the roster cards whose name passes find_player_url's name test
NameMatching == { i \in 1..Len(roster) :
                    roster[i].name # Absent /\ NameMatch(query.name, roster[i].name) }

TrimmedNumber(card) == IF card.number = Absent THEN <<>> ELSE Strip(card.number)

\* C10: find_player_url returns a URL only for a card whose trimmed jersey
\* number equals the query's trimmed number and whose name passes the name
\* test; on a fetched roster where every name-matching card has another
\* number it raises and returns no URL.  (Which name test is applied is the
\* subject of C11; here it is the one find_player_url computes.)
C10_JerseyMustMatch ==
    findPc = "done" =>
        /\ findResult.kind = "url" =>
              /\ findResult.card \in NameMatching
              /\ TrimmedNumber(roster[findResult.card]) = Strip(query.number)
        /\ (fetchOk /\ \A i \in NameMatching :
                          TrimmedNumber(roster[i]) # Strip(query.number))
              => /\ findResult.kind = "error"
                 /\ findResult.msg \in {"not_found", "no_players"}

\* the first card has the right name and a link but another number and is
\* passed over; the second card, with the query's number, is returned
C10_Witness ==
    /\ findPc = "done"
    /\ findResult.kind = "url"
    /\ findResult.card = 2
    /\ 1 \in NameMatching
    /\ roster[1].href # <<>>
    /\ TrimmedNumber(roster[1]) # Strip(query.number)

(***************************************************************************)
(* scraper/fuzzy_matcher.py                                                *)
(***************************************************************************)
\* The file stores its quotes and backslashes escaped once (\" and \\s);
\* the patterns below are the unescaped ones, \s+ and [^a-zA-Z\s].
FirstBlank(s) ==
    IF \E i \in 1..Len(s) : s[i] = " "
    THEN CHOOSE i \in 1..Len(s) : s[i] = " " /\ \A j \in 1..(i - 1) : s[j] # " "
    ELSE Len(s) + 1

\* str.split(): the maximal runs of non-blank characters
RECURSIVE Split(_)
Split(s) ==
    LET t == LStrip(s)
    IN IF t = <<>> THEN <<>>
       ELSE <<SubSeq(t, 1, FirstBlank(t) - 1)>>
                \o Split(SubSeq(t, FirstBlank(t), Len(t)))

\* the alternation of the suffix pattern, (jr|sr|iii|iv|v)
SUFFIXES == { <<"j","r">>, <<"s","r">>, <<"i","i","i">>, <<"i","v">>, <<"v">> }
\* ... followed by \.?
SuffixTails == SUFFIXES \cup { s \o <<".">> : s \in SUFFIXES }

\* re.sub(r'\s+(jr|sr|iii|iv|v)\.?$', '', name, flags=re.IGNORECASE): the
\* match starts at the first blank of the run in front of the suffix
StripSuffix(name) ==
    IF \E k \in 1..Len(name) :
          name[k] = " " /\ Lower(SubSeq(name, k + 1, Len(name))) \in SuffixTails
    THEN LET k == CHOOSE k \in 1..Len(name) :
                    /\ name[k] = " "
                    /\ Lower(SubSeq(name, k + 1, Len(name))) \in SuffixTails
         IN RStrip(SubSeq(name, 1, k - 1))
    ELSE name

Letters == Range(UpperAlpha) \cup Range(LowerAlpha)
\* re.sub(r'[^a-zA-Z\s]', '', name)
KeepLetters(s) == SelectSeq(s, LAMBDA c : c \in Letters \cup {" "})

\* fuzzy_matcher.normalize_name
normalize_name(name) ==
    IF name = <<>> THEN <<>>
    ELSE LET stripped == StripSuffix(name)
             parts == Split(stripped)
             short == IF Len(parts) > 2
                      THEN parts[1] \o <<" ">> \o parts[Len(parts)]
                      ELSE stripped
         IN Strip(Lower(KeepLetters(short)))

\* a matcher that compares last names only
names_match_LastNameOnly(name1, name2) ==
    LET norm1 == normalize_name(name1)
        norm2 == normalize_name(name2)
        parts1 == Split(norm1)
        parts2 == Split(norm2)
    IN \/ norm1 = norm2
       \/ /\ Len(parts1) = 2 /\ Len(parts2) = 2
          /\ parts1[2] = parts2[2]
\* fuzzy_matcher.names_match
names_match(name1, name2) ==
    LET norm1 == normalize_name(name1)
        norm2 == normalize_name(name2)
        parts1 == Split(norm1)
        parts2 == Split(norm2)
    IN \/ norm1 = norm2
       \/ /\ Len(parts1) = 2 /\ Len(parts2) = 2
          /\ parts1[2] = parts2[2]
          /\ parts1[1][1] = parts2[1][1]

\* C11: find_player_url returns a URL only for a card whose name the name
\* matcher (fuzzy_matcher.names_match) accepts for the requested name; a
\* card whose name merely contains, or is contained in, the requested name
\* ("Al Days" for "Al Day", same jersey) is not returned.
C11_AcceptedOnlyByNameMatcher ==
    (findPc = "done" /\ findResult.kind = "url")
        => names_match(query.name, roster[findResult.card].name)

(***************************************************************************)
(* scraper/data_cleaner.py                                                 *)
(***************************************************************************)
\* Python values: None, a str, an int, a float (units / 10^scale, with no
\* trailing zero in the fraction, so that equal floats are equal records)
PyNone == [type |-> "None", text |-> <<>>, units |-> 0, scale |-> 0]
PyStr(s) == [type |-> "str", text |-> s, units |-> 0, scale |-> 0]
PyInt(n) == [type |-> "int", text |-> <<>>, units |-> n, scale |-> 0]
RECURSIVE PyFloat(_, _)
PyFloat(units, scale) ==
    IF scale > 0 /\ units % 10 = 0 THEN PyFloat(units \div 10, scale - 1)
    ELSE [type |-> "float", text |-> <<>>, units |-> units, scale |-> scale]

DigitChars == <<"0","1","2","3","4","5","6","7","8","9">>
Digits == Range(DigitChars)
DigitValue(c) == (CHOOSE i \in 1..Len(DigitChars) : DigitChars[i] = c) - 1
AllDigits(s) == \A i \in 1..Len(s) : s[i] \in Digits
RECURSIVE DigitsValue(_)
DigitsValue(s) ==
    IF s = <<>> THEN 0
    ELSE 10 * DigitsValue(SubSeq(s, 1, Len(s) - 1)) + DigitValue(s[Len(s)])

Unsigned(s) == IF s # <<>> /\ s[1] = "-" THEN Tail(s) ELSE s
Signed(s, n) == IF s # <<>> /\ s[1] = "-" THEN 0 - n ELSE n

\* int(clean_val): an optional sign and at least one digit, else ValueError
int(s) ==
    IF Unsigned(s) # <<>> /\ AllDigits(Unsigned(s))
    THEN [raised |-> FALSE, value |-> PyInt(Signed(s, DigitsValue(Unsigned(s))))]
    ELSE [raised |-> TRUE, value |-> PyNone]

\* float(clean_val) for text made of digits, '.' and '-': an optional
\* sign, one point and at least one digit around it, else ValueError
float(s) ==
    LET body == Unsigned(s)
        points == { i \in 1..Len(body) : body[i] = "." }
        p == CHOOSE i \in points : TRUE
        whole == SubSeq(body, 1, p - 1)
        frac == SubSeq(body, p + 1, Len(body))
    IN IF /\ Cardinality(points) = 1
          /\ AllDigits(whole) /\ AllDigits(frac)
          /\ Len(whole) + Len(frac) >= 1
       THEN [raised |-> FALSE,
             value |-> PyFloat(Signed(s, DigitsValue(whole \o frac)), Len(frac))]
       ELSE [raised |-> TRUE, value |-> PyNone]

\* re.sub(r'[^\d\.-]', '', str(value))
CleanVal(s) == SelectSeq(s, LAMBDA c : c \in Digits \cup {".", "-"})

\* the body of the try block
ParseNumber(clean_val) ==
    IF "." \in Range(clean_val) THEN float(clean_val) ELSE int(clean_val)

\* a cleaner whose try block has no except clause
clean_stat_value_NoExcept(value) ==
    IF value = PyNone \/ value = PyStr(<<>>) \/ value = PyStr(<<"-">>)
    THEN [raised |-> FALSE, value |-> PyFloat(0, 0)]
    ELSE ParseNumber(CleanVal(value.text))
\* data_cleaner.clean_stat_value; value is None or a str
clean_stat_value(value) ==
    IF value = PyNone \/ value = PyStr(<<>>) \/ value = PyStr(<<"-">>)
    THEN [raised |-> FALSE, value |-> PyFloat(0, 0)]
    ELSE IF ParseNumber(CleanVal(value.text)).raised
         THEN [raised |-> FALSE, value |-> PyFloat(0, 0)]    \* except ValueError
         ELSE ParseNumber(CleanVal(value.text))

\* datetime.now().year
current_year == 2026

\* the ordered list of formats
formats == << "%b %d, %Y", "%b %d", "%m/%d/%y", "%m/%d/%Y" >>

MonthAbbr == << <<"j","a","n">>, <<"f","e","b">>, <<"m","a","r">>, <<"a","p","r">>, <<"m","a","y">>, <<"j","u","n">>,
                <<"j","u","l">>, <<"a","u","g">>, <<"s","e","p">>, <<"o","c","t">>, <<"n","o","v">>, <<"d","e","c">> >>

IsLeap(y) == (y % 4 = 0 /\ y % 100 # 0) \/ y % 400 = 0
DaysIn(y, m) ==
    IF m = 2 THEN (IF IsLeap(y) THEN 29 ELSE 28)
    ELSE IF m \in {4, 6, 9, 11} THEN 30 ELSE 31

\* the text before the first sep, and the text after it
Before(s, sep) ==
    IF \E i \in 1..Len(s) : s[i] = sep
    THEN SubSeq(s, 1, (CHOOSE i \in 1..Len(s) :
                          s[i] = sep /\ \A j \in 1..(i - 1) : s[j] # sep) - 1)
    ELSE s
After(s, sep) == SubSeq(s, Len(Before(s, sep)) + 2, Len(s))
Count(s, sep) == Cardinality({ i \in 1..Len(s) : s[i] = sep })

\* the directives: %m 1..12 and %d 1..31 in one or two digits, %y two
\* digits, %Y four digits
InRange(f, lo, hi) ==
    /\ Len(f) \in {1, 2} /\ AllDigits(f)
    /\ DigitsValue(f) >= lo /\ DigitsValue(f) <= hi
Year2(f) == Len(f) = 2 /\ AllDigits(f)
Year4(f) == Len(f) = 4 /\ AllDigits(f) /\ DigitsValue(f) >= 1
\* a reading of %y that puts every year in the 1900s
Century_1900(v) == 1900 + v
\* %y: 69..99 are 1969..1999, 0..68 are 2000..2068
Century(v) == IF v < 69 THEN 2000 + v ELSE 1900 + v

NoDate == [ok |-> FALSE, y |-> 0, m |-> 0, d |-> 0]
\* datetime(y, m, d) raises ValueError for a day the month does not have
MakeDate(y, m, d) ==
    IF d <= DaysIn(y, m) THEN [ok |-> TRUE, y |-> y, m |-> m, d |-> d] ELSE NoDate

\* "%m/%d/%y" and "%m/%d/%Y"
Slashed(s, long) ==
    LET mm == Before(s, "/")
        dd == Before(After(s, "/"), "/")
        yy == After(After(s, "/"), "/")
    IN IF /\ Count(s, "/") = 2
          /\ InRange(mm, 1, 12) /\ InRange(dd, 1, 31)
          /\ (IF long THEN Year4(yy) ELSE Year2(yy))
       THEN MakeDate(IF long THEN DigitsValue(yy) ELSE Century(DigitsValue(yy)),
                     DigitsValue(mm), DigitsValue(dd))
       ELSE NoDate

\* "%b %d, %Y" and "%b %d"; a blank of the format matches one or more
\* blanks, the month name matches in either case, a missing year is 1900
Named(s, withYear) ==
    LET mon == Lower(SubSeq(s, 1, 3))
        rest == SubSeq(s, 4, Len(s))
        dd == Before(LStrip(rest), ",")
        tail == After(LStrip(rest), ",")
        yy == LStrip(tail)
        m == CHOOSE i \in 1..12 : MonthAbbr[i] = mon
    IN IF /\ Len(s) >= 3 /\ \E i \in 1..12 : MonthAbbr[i] = mon
          /\ rest # <<>> /\ rest[1] = " "
          /\ InRange(dd, 1, 31)
          /\ Count(rest, ",") = (IF withYear THEN 1 ELSE 0)
          /\ (withYear => tail # <<>> /\ tail[1] = " " /\ Year4(yy))
       THEN MakeDate(IF withYear THEN DigitsValue(yy) ELSE 1900,
                     m, DigitsValue(dd))
       ELSE NoDate

\* datetime.strptime(date_str, fmt); ok = FALSE stands for ValueError
strptime(s, fmt) ==
    CASE fmt = "%b %d, %Y" -> Named(s, TRUE)
      [] fmt = "%b %d" -> Named(s, FALSE)
      [] fmt = "%m/%d/%y" -> Slashed(s, FALSE)
      [] OTHER -> Slashed(s, TRUE)

Pad2(n) == << DigitChars[((n \div 10) % 10) + 1], DigitChars[(n % 10) + 1] >>
Pad4(n) == Pad2(n \div 100) \o Pad2(n % 100)
\* date.isoformat()
isoformat(dt) == Pad4(dt.y) \o <<"-">> \o Pad2(dt.m) \o <<"-">> \o Pad2(dt.d)

\* data_cleaner.normalize_date; date_str is None or a str
normalize_date(date_str) ==
    IF date_str = PyNone \/ date_str = PyStr(<<>>) THEN PyNone
    ELSE IF \E k \in 1..Len(formats) : strptime(date_str.text, formats[k]).ok
    THEN LET k == CHOOSE k \in 1..Len(formats) :
                    /\ strptime(date_str.text, formats[k]).ok
                    /\ \A j \in 1..(k - 1) : ~strptime(date_str.text, formats[j]).ok
             dt == strptime(date_str.text, formats[k])
         IN PyStr(isoformat(IF formats[k] = "%b %d"
                            THEN [dt EXCEPT !.y = current_year] ELSE dt))
    ELSE date_str

(***************************************************************************)
(* scraper_api.get_player_stats: the normalisation of the parsed games     *)
(***************************************************************************)
\* cleaned = {k: (clean_stat_value(v) if k != 'date' else normalize_date(v))
\*            for k, v in game.items()}
cleaned(game) ==
    [k \in DOMAIN game |->
        IF k # <<"d","a","t","e">> THEN clean_stat_value(PyStr(game[k])).value
        ELSE normalize_date(PyStr(game[k]))]

\* for game in raw_games: cleaned_games.append(cleaned)
cleaned_games(raw_games) == [i \in 1..Len(raw_games) |-> cleaned(raw_games[i])]

\* the tables whose parsed rows are handed to the normalisation
StatTables ==
    { [headers |-> <<Date, Opponent, AB, Hits>>, stats |-> TRUE,
       rows |-> << << <<"2","/","1","4","/","2","0","2","6">>, <<"G","e","o","r","g","i","a"," ","S","t","a","t","e">>, <<"4">>, <<"2">> >> >>],
      [headers |-> <<Date, Opponent, AB, <<"S","t","o","l","e","n"," ","B","a","s","e","s">> >>, stats |-> TRUE,
       rows |-> << << <<"F","e","b"," ","1","5">>, <<"G","S","U">>, <<"3">>, <<"-">> >>,
                   << <<"2","/","1","6","/","2","6">>, <<"@"," ","G","S","U">>, <<"0">>, <<"1">> >> >>],
      [headers |-> << <<"d","a","t","e">>, <<"o","p","p","o","n","e","n","t">>, <<"a","v","g">> >>, stats |-> TRUE,
       rows |-> << << <<"2","/","1","4","/","2","0","2","6">>, <<"G","S","U">>, <<".","2","5","0">> >> >>],
      [headers |-> <<Date, Opponent, AB>>, stats |-> TRUE,
       rows |-> << TotalRow >>] }

\* raw_games: what the named parser makes of the table
raw_games(c) == Collect(c.parser, <<c.table>>)

CleanedCalls ==
    { [fn |-> "cleaned_games", parser |-> p, table |-> t] :
        p \in {"sidearm", "prestosports", "generic"}, t \in StatTables }

CallCleanedGames ==
    /\ callPc = "start"
    /\ call.fn = "cleaned_games"
    /\ returned' = [raised |-> FALSE, value |-> cleaned_games(raw_games(call))]
    /\ callPc' = "done"
    /\ UNCHANGED call
    /\ UNCHANGED <<batchVars, syncVars, parseVars, findVars, retryVars, logVars>>

\* the key the rule of the record format gives a header: trimmed,
\* lower-cased, blanks replaced by underscores
NormalKey(h) == ReplaceSpace(Lower(Strip(h)))

\* C12: every game record get_player_stats returns has normalised keys
\* (lower case, underscores); its date is normalize_date of the source date
\* text, its opponent is the source opponent text unchanged, and every other
\* field is clean_stat_value of its cell: header [Date, Opponent, AB, H] and
\* row [2/14/2026, Georgia State, 4, 2] give
\* {date: 2026-02-14, opponent: Georgia State, ab: 4, h: 2}.
C12_RecordsNormalized ==
    (callPc = "done" /\ call.fn = "cleaned_games") =>
        \A i \in 1..Len(returned.value) :
            LET rec == returned.value[i]
                raw == raw_games(call)[i]
            IN /\ \A k \in DOMAIN rec : k = NormalKey(k)
               /\ \A h \in DOMAIN raw :
                    /\ NormalKey(h) \in DOMAIN rec
                    /\ rec[NormalKey(h)] =
                          CASE NormalKey(h) = <<"d","a","t","e">> ->
                                    normalize_date(PyStr(raw[h]))
                            [] NormalKey(h) = <<"o","p","p","o","n","e","n","t">> -> PyStr(raw[h])
                            [] OTHER -> clean_stat_value(PyStr(raw[h])).value

(***************************************************************************)
(* scraper/error_handler.py: handle_retry and log_error                    *)
(***************************************************************************)
MaxCalls == 2        \* most calls through the wrapper that are in progress

\* retries = 3
retries == 3
\* errors = errors[-100:]
ErrorLogWindow == 100

\* a window that keeps the oldest entries
LastN_Oldest(s, n) == IF Len(s) <= n THEN s ELSE SubSeq(s, 1, n)
\* s[-n:]
LastN(s, n) == IF Len(s) <= n THEN s ELSE SubSeq(s, Len(s) - n + 1, Len(s))

\* log_error: read the log, append, keep the last 100, write it back; a
\* failure of the read or the write is caught and leaves the file as it
\* was.  The output directory is taken to exist or to be creatable.
log_error(log, error, io) ==
    IF io = "ok" THEN LastN(log \o <<error>>, ErrorLogWindow) ELSE log

WrapperCalls == DOMAIN retryPc

\* what func can raise: any Exception is caught
Failures == {"fetch_error", "not_found"}

\* a wrapper that never takes an attempt for the last one
LastAttempt_Never(i) == FALSE
\* if i == retries - 1
LastAttempt(i) == i = retries - 1

InitRetry ==
    /\ \E n \in 1..MaxCalls :
          /\ history = [c \in 1..n |-> <<>>]
          /\ attempt = [c \in 1..n |-> 0]
          /\ retryPc = [c \in 1..n |-> "loop"]
          /\ retryResult = [c \in 1..n |-> [kind |-> "none", of |-> 0]]
    /\ errorLog = <<>>

\* try: return func(*args, **kwargs)  -- func returns
TrySucceeds(c) ==
    /\ retryPc[c] = "loop"
    /\ attempt[c] < retries
    /\ history' = [history EXCEPT ![c] = Append(@, "ok")]
    /\ retryPc' = [retryPc EXCEPT ![c] = "returned"]
    /\ retryResult' = [retryResult EXCEPT
                          ![c] = [kind |-> "value", of |-> Len(history[c]) + 1]]
    /\ UNCHANGED <<attempt, errorLog>>
    /\ UNCHANGED <<batchVars, syncVars, parseVars, findVars, callVars, logVars>>

\* except Exception as e: on the last attempt log_error(e) and raise,
\* otherwise warn and go round again; a loop that ran out returns None
TryFails(c) ==
  \E e \in Failures :
    /\ retryPc[c] = "loop"
    /\ attempt[c] < retries
    /\ history' = [history EXCEPT ![c] = Append(@, e)]
    /\ IF LastAttempt(attempt[c])
       THEN /\ \E io \in IoOutcomes :
                 errorLog' = log_error(errorLog,
                                [call |-> c, error |-> e], io)
            /\ retryPc' = [retryPc EXCEPT ![c] = "raised"]
            /\ retryResult' = [retryResult EXCEPT
                                 ![c] = [kind |-> e, of |-> Len(history[c]) + 1]]
            /\ UNCHANGED attempt
       ELSE /\ attempt' = [attempt EXCEPT ![c] = @ + 1]
            /\ IF attempt[c] + 1 < retries
               THEN UNCHANGED <<retryPc, retryResult>>
               ELSE /\ retryPc' = [retryPc EXCEPT ![c] = "returned"]
                    /\ retryResult' = [retryResult EXCEPT
                                          ![c] = [kind |-> "value", of |-> 0]]
            /\ UNCHANGED errorLog
    /\ UNCHANGED <<batchVars, syncVars, parseVars, findVars, callVars, logVars>>

NextRetry == \E c \in WrapperCalls : TrySucceeds(c) \/ TryFails(c)

RetryBegin ==
    InitRetry /\ IdleBatch /\ IdleSync /\ IdleParse /\ IdleFind /\ IdleCall
        /\ IdleLog

SpecRetry == RetryBegin /\ [][NextRetry]_vars

AllFailed(h) == \A k \in 1..Len(h) : h[k] \in Failures

NotFoundOutcome ==
    ScanRoster(query, << [name |-> Absent, number |-> Absent, href |-> <<>>] >>)

\* C14: a call of find_player_url for a configured school fetches the
\* roster page exactly once, and when that fetch fails the error raised
\* has another type than the error raised for a player that is not found.
C14_FetchOnceAndTyped ==
    (findPc = "done" /\ query.school \in SCHOOLS) =>
        /\ fetches = 1
        /\ ~fetchOk => /\ findResult.kind = "error"
                       /\ findResult.exc # NotFoundOutcome.exc

PLATFORMS ==
    << [platform |-> "sidearm",
        patterns |-> << <<"s","i","d","e","a","r","m","s","p","o","r","t","s",".","c","o","m">>, <<"s","i","d","e","a","r","m","s","t","a","t","s",".","c","o","m">>, <<"a","s","i","c","s",".","c","o","m">> >>],
       [platform |-> "presto",
        patterns |-> << <<"p","r","e","s","t","o","s","p","o","r","t","s",".","c","o","m">>, <<"p","r","e","s","t","o","-","s","t","a","t","s",".","c","o","m">> >>],
       [platform |-> "genius",
        patterns |-> << <<"g","e","n","i","u","s","s","p","o","r","t","s",".","c","o","m">>, <<"n","c","a","a",".","o","r","g">> >>],
       [platform |-> "statbroadcast", patterns |-> << <<"s","t","a","t","b","r","o","a","d","c","a","s","t",".","c","o","m">> >>],
       [platform |-> "ncaa", patterns |-> << <<"n","c","a","a",".","c","o","m">>, <<"n","c","a","a",".","o","r","g">> >>],
       [platform |-> "stretch",
        patterns |-> << <<"s","t","r","e","t","c","h","i","n","t","e","r","n","e","t",".","c","o","m">>, <<"h","u","d","l",".","c","o","m">> >>],
       [platform |-> "wmt", patterns |-> << <<"w","m","t",".","d","i","g","i","t","a","l">> >>],
       [platform |-> "revel", patterns |-> << <<"r","e","v","e","l","x","p",".","c","o","m">> >>],
       [platform |-> "d3sports",
        patterns |-> << <<"d","3","b","a","s","e","b","a","l","l",".","c","o","m">>, <<"d","3","s","p","o","r","t","s",".","c","o","m">> >>] >>

\* config.PLATFORM_DOMAINS, in the order of the dict
PLATFORM_DOMAINS ==
    << [platform |-> "sidearm",
        patterns |-> << <<"s","i","d","e","a","r","m","d","e","v">>, <<"s","i","d","e","a","r","m","s","p","o","r","t","s">>, <<".","c","o","m">> >>],
       [platform |-> "prestosports",
        patterns |-> << <<"p","r","e","s","t","o","s","p","o","r","t","s",".","c","o","m">>, <<"p","r","e","s","t","o","s","p","o","r","t","s">> >>],
       [platform |-> "ncaa", patterns |-> << <<"n","c","a","a",".","c","o","m">> >>] >>

\* any(pattern in domain for pattern in patterns)
MatchesAny(patterns, domain) ==
    \E i \in 1..Len(patterns) : IsSubstring(patterns[i], domain)

\* for platform, patterns in table.items(): the first platform one of
\* whose patterns occurs in the domain; "none" when the loop runs out
FirstPlatform(table, domain) ==
    IF \E k \in 1..Len(table) : MatchesAny(table[k].patterns, domain)
    THEN table[CHOOSE k \in 1..Len(table) :
                  /\ MatchesAny(table[k].patterns, domain)
                  /\ \A j \in 1..(k - 1) : ~MatchesAny(table[j].patterns, domain)
              ].platform
    ELSE "none"

\* config.detect_platform(domain)
config_detect_platform(domain) ==
    IF FirstPlatform(PLATFORM_DOMAINS, Lower(domain)) # "none"
    THEN FirstPlatform(PLATFORM_DOMAINS, Lower(domain))
    ELSE "generic"

\* urlparse(url): the network location is what follows "scheme://" up to
\* the next "/"; a text without "//" is all path
Scheme(url) ==
    IF StartsWith(Lower(url), <<"h","t","t","p","s",":","/","/">>) THEN 8
    ELSE IF StartsWith(Lower(url), <<"h","t","t","p",":","/","/">>) THEN 7 ELSE 0
urlparse(url) ==
    LET rest == SubSeq(url, Scheme(url) + 1, Len(url))
    IN IF Scheme(url) = 0 THEN [netloc |-> <<>>, path |-> url]
       ELSE [netloc |-> Before(rest, "/"),
             path |-> SubSeq(rest, Len(Before(rest, "/")) + 1, Len(rest))]

\* the HTML markers, in the order they are tested
HtmlPlatform(html_lower) ==
    CASE IsSubstring(<<"s","i","d","e","a","r","m"," ","s","p","o","r","t","s">>, html_lower)
           \/ IsSubstring(<<"s","i","d","e","a","r","m","s","t","a","t","s">>, html_lower) -> "sidearm"
      [] IsSubstring(<<"p","r","e","s","t","o","s","p","o","r","t","s">>, html_lower)
           \/ IsSubstring(<<"p","r","e","s","t","o"," ","s","t","a","t","s">>, html_lower) -> "presto"
      [] IsSubstring(<<"g","e","n","i","u","s"," ","s","p","o","r","t","s">>, html_lower) -> "genius"
      [] IsSubstring(<<"w","m","t"," ","d","i","g","i","t","a","l">>, html_lower) -> "wmt"
      [] IsSubstring(<<"s","t","r","e","t","c","h"," ","i","n","t","e","r","n","e","t">>, html_lower) -> "stretch"
      [] IsSubstring(<<"s","t","a","t","b","r","o","a","d","c","a","s","t">>, html_lower) -> "statbroadcast"
      [] OTHER -> "none"

\* a detector whose last statement is not reached: it returns None
PathPlatform_NoDefault(path, domain) ==
    IF IsSubstring(<<"/","s","i","d","e","a","r","m","s","t","a","t","s","/">>, path) THEN "sidearm"
    ELSE IF IsSubstring(<<"/","s","t","a","t","s","/">>, path) /\ IsSubstring(<<"n","c","a","a">>, domain)
    THEN "ncaa"
    ELSE "none"
\* the URL path patterns and the default
PathPlatform(path, domain) ==
    IF IsSubstring(<<"/","s","i","d","e","a","r","m","s","t","a","t","s","/">>, path) THEN "sidearm"
    ELSE IF IsSubstring(<<"/","s","t","a","t","s","/">>, path) /\ IsSubstring(<<"n","c","a","a">>, domain)
    THEN "ncaa"
    ELSE "generic"

\* platform_detector.detect_platform(url, html=None); html is None or a str
detect_platform(url, html) ==
    LET parsed_url == urlparse(url)
        domain == Lower(parsed_url.netloc)
    IN IF FirstPlatform(PLATFORMS, domain) # "none"
       THEN FirstPlatform(PLATFORMS, domain)
       ELSE IF html # PyNone /\ html # PyStr(<<>>)
                 /\ HtmlPlatform(Lower(html.text)) # "none"
       THEN HtmlPlatform(Lower(html.text))
       ELSE PathPlatform(Lower(parsed_url.path), domain)

\* the arguments tried: URLs with and without a scheme, and page texts
Urls ==
    { <<"b","e","l","m","o","n","t","b","r","u","i","n","s",".","c","o","m">>, <<"h","t","t","p","s",":","/","/","b","e","l","m","o","n","t","b","r","u","i","n","s",".","c","o","m">>,
      <<"h","t","t","p","s",":","/","/","b","e","l","m","o","n","t","b","r","u","i","n","s",".","c","o","m","/","r","o","s","t","e","r">>, <<"x",".","s","i","d","e","a","r","m","s","p","o","r","t","s",".","c","o","m">>,
      <<"h","t","t","p","s",":","/","/","x",".","s","i","d","e","a","r","m","s","p","o","r","t","s",".","c","o","m","/">>, <<"h","t","t","p",":","/","/","w","w","w",".","d","3","b","a","s","e","b","a","l","l",".","c","o","m","/">>,
      <<"h","t","t","p","s",":","/","/","s","t","a","t","s",".","n","c","a","a",".","o","r","g","/","s","t","a","t","s","/">>, <<"h","t","t","p",":","/","/","n","c","a","a",".","i","o","/","s","t","a","t","s","/">>,
      <<"h","t","t","p","s",":","/","/","a",".","e","d","u","/","s","i","d","e","a","r","m","s","t","a","t","s","/","b">>, <<"h","t","t","p","s",":","/","/","a",".","e","d","u">>, <<"a",".","e","d","u">>,
      <<"h","t","t","p",":","/","/","P","r","e","s","t","o","S","p","o","r","t","s",".","c","o","m">> }
Htmls ==
    { PyNone, PyStr(<<>>), PyStr(<<"h","e","l","l","o">>), PyStr(<<"S","i","d","e","a","r","m"," ","S","p","o","r","t","s">>),
      PyStr(<<"p","r","e","s","t","o"," ","s","t","a","t","s">>), PyStr(<<"G","e","n","i","u","s"," ","S","p","o","r","t","s">>), PyStr(<<"w","m","t"," ","d","i","g","i","t","a","l">>),
      PyStr(<<"s","t","r","e","t","c","h"," ","i","n","t","e","r","n","e","t">>), PyStr(<<"S","t","a","t","B","r","o","a","d","c","a","s","t">>) }
Domains ==
    { <<"b","e","l","m","o","n","t","b","r","u","i","n","s",".","c","o","m">>, <<"a",".","e","d","u">>, <<"x",".","s","i","d","e","a","r","m","s","p","o","r","t","s",".","c","o","m">>,
      <<"S","i","d","e","a","r","m","D","e","v",".","n","e","t">>, <<"p","r","e","s","t","o","s","p","o","r","t","s",".","n","e","t">>, <<"n","c","a","a",".","c","o","m">>, <<"n","c","a","a",".","o","r","g">> }

DetectCalls ==
    { [fn |-> "detect_platform", url |-> u, html |-> h] : u \in Urls, h \in Htmls }
ConfigDetectCalls ==
    { [fn |-> "config.detect_platform", domain |-> d] : d \in Domains }

CallDetectPlatform ==
    /\ callPc = "start"
    /\ call.fn = "detect_platform"
    /\ returned' = [raised |-> FALSE, value |-> detect_platform(call.url, call.html)]
    /\ callPc' = "done"
    /\ UNCHANGED call
    /\ UNCHANGED <<batchVars, syncVars, parseVars, findVars, retryVars, logVars>>

CallConfigDetectPlatform ==
    /\ callPc = "start"
    /\ call.fn = "config.detect_platform"
    /\ returned' = [raised |-> FALSE, value |-> config_detect_platform(call.domain)]
    /\ callPc' = "done"
    /\ UNCHANGED call
    /\ UNCHANGED <<batchVars, syncVars, parseVars, findVars, retryVars, logVars>>

\* the platform ids the detector is said to return
PlatformIds ==
    { "sidearm", "presto", "genius", "statbroadcast", "ncaa", "stretch", "wmt",
      "revel", "generic" }

VendorSubstrings ==
    UNION { Range(PLATFORMS[k].patterns) : k \in 1..Len(PLATFORMS) }
    \cup (UNION { Range(PLATFORM_DOMAINS[k].patterns) :
                    k \in 1..Len(PLATFORM_DOMAINS) } \ { <<".","c","o","m">> })
NoVendor(domain) ==
    \A p \in VendorSubstrings : ~IsSubstring(p, Lower(domain))
NoSignature(html) ==
    html \in {PyNone, PyStr(<<>>)} \/ HtmlPlatform(Lower(html.text)) = "none"

\* C17: for a domain that contains no vendor substring, and a page without
\* a vendor signature, both config.detect_platform (given the domain) and
\* platform_detector.detect_platform (given the domain, bare or behind
\* "https://") return "generic".
C17_UnknownDomainIsGeneric ==
    callPc = "done" =>
        /\ (call.fn = "config.detect_platform" /\ NoVendor(call.domain))
              => returned.value = "generic"
        /\ (/\ call.fn = "detect_platform"
            /\ NoSignature(call.html)
            /\ \E d \in Domains :
                  NoVendor(d) /\ call.url \in {d, <<"h","t","t","p","s",":","/","/">> \o d})
              => returned.value = "generic"

(***************************************************************************)
(* Calls of the name matcher and of the stat cleaner                       *)
(***************************************************************************)
Names ==
    { <<"M","i","k","e"," ","S","m","i","t","h">>, <<"M","."," ","S","m","i","t","h">>, <<"M","i","k","e"," ","J","o","n","e","s">>, <<"T","o","m"," ","S","m","i","t","h">>,
      <<"m","i","k","e"," "," ","s","m","i","t","h">>, <<"A","l"," ","D","a","y">>, <<"A","l"," ","B"," ","D","a","y">>, <<"A","l"," ","D","a","y"," ","J","r",".">>, <<"A","l"," ","D","a","y"," ","I","I">>,
      <<"M","a","d","o","n","n","a">>, <<>> }
BaseNames == { <<"A","l"," ","D","a","y">>, <<"M","i","k","e"," ","S","m","i","t","h">> }
\* the suffixes a name may carry: none, and Jr, Sr, II, III, IV, V, each
\* with and without a period
GenerationalSuffixes ==
    { <<"J","r">>, <<"S","r">>, <<"I","I">>, <<"I","I","I">>, <<"I","V">>, <<"V">>,
      <<"J","r",".">>, <<"S","r",".">>, <<"I","I",".">>, <<"I","I","I",".">>, <<"I","V",".">>, <<"V",".">>, <<"j","r">> }
WithSuffix(base, suffix) ==
    IF suffix = <<>> THEN base ELSE base \o <<" ">> \o suffix

MatchCalls ==
    { [fn |-> "names_match", name1 |-> a, name2 |-> b] : a \in Names, b \in Names }
NormalizeCalls ==
    { [fn |-> "normalize_name", base |-> b, suffix |-> s] :
        b \in BaseNames, s \in GenerationalSuffixes \cup {<<>>} }

Values ==
    { PyNone, PyStr(<<>>), PyStr(<<"-">>), PyStr(<<"-","-">>), PyStr(<<".">>),
      PyStr(<<"1",".","2",".","3">>), PyStr(<<"7","-","3">>), PyStr(<<"a","b","c">>), PyStr(<<"4">>),
      PyStr(<<"-","4">>), PyStr(<<".","2","5","0">>), PyStr(<<"1",".">>), PyStr(<<"-",".","5">>),
      PyStr(<<"5","-">>), PyStr(<<"1","2"," ","A","B">>), PyStr(<<"0",".","1","0">>), PyStr(<<"3"," ","f","o","r"," ","4">>),
      PyStr(<<"1",",","0","2","4">>), PyStr(<<"-","0">>) }
CleanCalls == { [fn |-> "clean_stat_value", value |-> v] : v \in Values }

CallNamesMatch ==
    /\ callPc = "start"
    /\ call.fn = "names_match"
    /\ returned' = [raised |-> FALSE, value |-> names_match(call.name1, call.name2)]
    /\ callPc' = "done"
    /\ UNCHANGED call
    /\ UNCHANGED <<batchVars, syncVars, parseVars, findVars, retryVars, logVars>>

CallNormalizeName ==
    /\ callPc = "start"
    /\ call.fn = "normalize_name"
    /\ returned' = [raised |-> FALSE,
                    value |-> normalize_name(WithSuffix(call.base, call.suffix))]
    /\ callPc' = "done"
    /\ UNCHANGED call
    /\ UNCHANGED <<batchVars, syncVars, parseVars, findVars, retryVars, logVars>>

CallCleanStatValue ==
    /\ callPc = "start"
    /\ call.fn = "clean_stat_value"
    /\ returned' = clean_stat_value(call.value)
    /\ callPc' = "done"
    /\ UNCHANGED call
    /\ UNCHANGED <<batchVars, syncVars, parseVars, findVars, retryVars, logVars>>

\* the tokens of a normalized form
Tokens(name) == Split(normalize_name(name))

\* C18: names_match(a, b) is true exactly when the normalized forms of a
\* and b are equal, or both have two tokens, the same last token and first
\* tokens with the same first character; so it is true for "Mike Smith" and
\* "M. Smith" and false for "Mike Smith" and "Mike Jones".
C18_MatchRule ==
    (callPc = "done" /\ call.fn = "names_match") =>
        /\ returned.value =
              (\/ normalize_name(call.name1) = normalize_name(call.name2)
               \/ /\ Len(Tokens(call.name1)) = 2
                  /\ Len(Tokens(call.name2)) = 2
                  /\ Tokens(call.name1)[2] = Tokens(call.name2)[2]
                  /\ Head(Tokens(call.name1)[1]) = Head(Tokens(call.name2)[1]))
        /\ (call.name1 = <<"M","i","k","e"," ","S","m","i","t","h">> /\ call.name2 = <<"M","."," ","S","m","i","t","h">>)
              => returned.value = TRUE
        /\ (call.name1 = <<"M","i","k","e"," ","S","m","i","t","h">> /\ call.name2 = <<"M","i","k","e"," ","J","o","n","e","s">>)
              => returned.value = FALSE

\* the initial rule, not equality, has made "Mike Smith" and "M. Smith" match
C18_Witness ==
    /\ callPc = "done" /\ call.fn = "names_match"
    /\ call.name1 = <<"M","i","k","e"," ","S","m","i","t","h">> /\ call.name2 = <<"M","."," ","S","m","i","t","h">>
    /\ normalize_name(call.name1) # normalize_name(call.name2)
    /\ returned.value = TRUE

\* C19: for each suffix S in Jr, Sr, II, III, IV, V, with or without a
\* period, normalize_name("First Last S") equals normalize_name("First
\* Last"), and the two names match.
C19_SuffixStripped ==
    (callPc = "done" /\ call.fn = "normalize_name" /\ call.suffix # <<>>) =>
        /\ returned.value = normalize_name(call.base)
        /\ names_match(WithSuffix(call.base, call.suffix), call.base)

\* a text that reads as a number: an optional sign, digits with at most
\* one point among them, and at least one digit
IsNumeral(s) ==
    /\ "-" \notin Range(Unsigned(s))
    /\ Count(s, ".") <= 1
    /\ \E i \in 1..Len(s) : s[i] \in Digits

\* the number a numeral denotes: an int without a point, a float with one
NumeralValue(s) ==
    LET n == Signed(s, DigitsValue(SelectSeq(s, LAMBDA c : c \in Digits)))
    IN IF Count(s, ".") = 0 THEN PyInt(n)
       ELSE PyFloat(n, Len(After(s, ".")))

\* what is left of a value when all but digits, points and signs is dropped
Stripped(value) ==
    SelectSeq(value.text, LAMBDA c : c \in Digits \cup {".", "-"})

\* C20: clean_stat_value never raises; it returns 0.0 for None, "" and "-",
\* 0.0 for every text whose stripped form is not a number ("--", ".",
\* "1.2.3", "7-3", text without digits), and the number otherwise.
C20_NeverRaises ==
    (callPc = "done" /\ call.fn = "clean_stat_value") =>
        /\ ~returned.raised
        /\ call.value \in {PyNone, PyStr(<<>>), PyStr(<<"-">>)}
              => returned.value = PyFloat(0, 0)
        /\ (call.value.type = "str" /\ ~IsNumeral(Stripped(call.value)))
              => returned.value = PyFloat(0, 0)
        /\ call.value \in { PyStr(<<"-","-">>), PyStr(<<".">>), PyStr(<<"1",".","2",".","3">>),
                            PyStr(<<"7","-","3">>), PyStr(<<"a","b","c">>) }
              => returned.value = PyFloat(0, 0)
        /\ (call.value.type = "str" /\ IsNumeral(Stripped(call.value)))
              => returned.value = NumeralValue(Stripped(call.value))

\* a text whose stripped form "7-3" is no number has been cleaned to 0.0
C20_Witness ==
    /\ callPc = "done" /\ call.fn = "clean_stat_value"
    /\ call.value = PyStr(<<"7","-","3">>)
    /\ returned = [raised |-> FALSE, value |-> PyFloat(0, 0)]

(***************************************************************************)
(* Calls of normalize_date                                                 *)
(***************************************************************************)
Dates ==
    { PyStr(<<>>), PyStr(<<"F","e","b"," ","1","5",","," ","2","0","2","6">>), PyStr(<<"2","/","1","5","/","2","6">>),
      PyStr(<<"g","a","r","b","a","g","e">>), PyStr(<<"2","/","1","4","/","2","0","2","6">>), PyStr(<<"F","e","b"," ","1","5">>),
      PyStr(<<"F","e","b"," ","2","9">>), PyStr(<<"0","2","/","3","0","/","2","0","2","6">>), PyStr(<<"1","3","/","1","/","2","6">>),
      PyStr(<<"f","e","b"," ","5",","," "," ","2","0","2","6">>), PyStr(<<"2","/","1","4","/","9","9">>), PyStr(<<"F","e","b"," ","1","5"," ","2","0","2","6">>) }
DateCalls == { [fn |-> "normalize_date", date_str |-> d] : d \in Dates }

CallNormalizeDate ==
    /\ callPc = "start"
    /\ call.fn = "normalize_date"
    /\ returned' = [raised |-> FALSE, value |-> normalize_date(call.date_str)]
    /\ callPc' = "done"
    /\ UNCHANGED call
    /\ UNCHANGED <<batchVars, syncVars, parseVars, findVars, retryVars, logVars>>

\* the formats of the list that accept the text, by position
Matching(text) == { k \in 1..Len(formats) : strptime(text, formats[k]).ok }
\* the date the k-th format reads from the text, with this year for the
\* format that has no year
DateRead(text, k) ==
    LET dt == strptime(text, formats[k])
    IN IF formats[k] = "%b %d" THEN [dt EXCEPT !.y = current_year] ELSE dt
\* YYYY-MM-DD
Rendering(dt) == Pad4(dt.y) \o <<"-">> \o Pad2(dt.m) \o <<"-">> \o Pad2(dt.d)

DateRule(date_str, value) ==
    /\ Matching(date_str.text) # {} =>
          \E k \in Matching(date_str.text) :
              /\ \A j \in Matching(date_str.text) : k <= j
              /\ value = PyStr(Rendering(DateRead(date_str.text, k)))
    /\ Matching(date_str.text) = {} => value = date_str
    /\ date_str = PyStr(<<"F","e","b"," ","1","5",","," ","2","0","2","6">>) => value = PyStr(<<"2","0","2","6","-","0","2","-","1","5">>)
    /\ date_str = PyStr(<<"2","/","1","5","/","2","6">>) => value = PyStr(<<"2","0","2","6","-","0","2","-","1","5">>)
    /\ date_str = PyStr(<<"g","a","r","b","a","g","e">>) => value = PyStr(<<"g","a","r","b","a","g","e">>)

\* C21 as stated: for every raw date text, the empty text included,
\* normalize_date returns the YYYY-MM-DD rendering of the first format of
\* the list that matches, or, when none matches, the text it was given.
C21_IsoOrInput ==
    (callPc = "done" /\ call.fn = "normalize_date")
        => DateRule(call.date_str, returned.value)

\* C21 amended: the same for every non-empty raw date text; for the empty
\* text normalize_date returns None.
C21_IsoOrInputUnlessEmpty ==
    (callPc = "done" /\ call.fn = "normalize_date") =>
        IF call.date_str = PyStr(<<>>) THEN returned.value = PyNone
        ELSE DateRule(call.date_str, returned.value)

\* "2/15/26" is refused by the two month-name formats and read by the third
C21_Witness ==
    /\ callPc = "done" /\ call.fn = "normalize_date"
    /\ call.date_str = PyStr(<<"2","/","1","5","/","2","6">>)
    /\ Matching(call.date_str.text) = {3}
    /\ returned.value = PyStr(<<"2","0","2","6","-","0","2","-","1","5">>)

(***************************************************************************)
(* run_sync: the payload and the order of scrape, push and fallback        *)
(***************************************************************************)
\* the fields of the per-player push payload
PayloadFields ==
    { "playerId", "name", "number", "school", "season", "sport", "games",
      "last_updated" }

\* C22: every payload push_stats_to_base44 builds has all of the fields
\* playerId, name, number, school, season, sport, games and last_updated,
\* and its last_updated ends in "Z".
C22_PayloadComplete ==
    \A i \in Processed :
        trail[i].push # "none" =>
            /\ PayloadFields \subseteq DOMAIN trail[i].payload
            /\ trail[i].payload.last_updated[Len(trail[i].payload.last_updated)] = "Z"

(***************************************************************************)
(* parse_game_log: the fallback and the driver                             *)
(***************************************************************************)
\* C23: when the platform path of a non-generic platform fails structurally
\* (navigation error, stats tab that cannot be clicked, no qualifying
\* table), the generic parser has been attempted exactly once by the time
\* parse_game_log returns or raises.  (Season selection is best effort in
\* the parsers: its failure is swallowed and changes no outcome here.)
C23_FallbackExactlyOnce ==
    (parsePc \in {"returned", "raised"} /\ platform_type # "generic"
        /\ ~platformFound)
        => genericRuns = 1

(***************************************************************************)
(* handle_retry and log_error: what is retried, what the log keeps         *)
(***************************************************************************)
\* the failures that are not to be retried
NonRetryable == Failures \ {"fetch_error"}

\* C24: a function that failed with a non-retryable error (configuration,
\* not found) is not invoked again by the retry wrapper: such a failure is
\* the last invocation of its call; only fetch failures are followed by
\* another attempt.
C24_NoRetryAfterNonRetryable ==
    \A c \in WrapperCalls :
        \A k \in 1..Len(history[c]) :
            history[c][k] \in NonRetryable => k = Len(history[c])

(***************************************************************************)
(* log_error called by several failing tasks.  The function takes no lock: *)
(* between a call's read of the file and its write, other calls may read   *)
(* and write.                                                              *)
(***************************************************************************)
MaxLoggers == 3      \* most tasks that call log_error

Loggers == DOMAIN logPc

\* what the file holds when the calls begin: nothing, or a log that
\* log_error left one short of, or at, its window
OldLog(k) == [i \in 1..k |-> [task |-> 0, n |-> i]]
InitialLengths == {0, ErrorLogWindow - 1, ErrorLogWindow}

\* error_data of the call of task t
error_data(t) == [task |-> t, n |-> 1]

InitLog ==
    /\ \E n \in 1..MaxLoggers :
          /\ logPc = [t \in 1..n |-> "start"]
          /\ errors = [t \in 1..n |-> <<>>]
    /\ \E k \in InitialLengths : errorLog = OldLog(k) /\ logged = OldLog(k)
    /\ overlapped = FALSE
    /\ history = <<>> /\ attempt = <<>> /\ retryPc = <<>> /\ retryResult = <<>>

\* errors = []; if os.path.exists(...): errors = json.load(f); a failure
\* is caught by the except clause and ends the call
LogRead(t) ==
    /\ logPc[t] = "start"
    /\ \E io \in IoOutcomes :
          IF io = "ok"
          THEN /\ errors' = [errors EXCEPT ![t] = errorLog]
               /\ logPc' = [logPc EXCEPT ![t] = "read"]
               /\ overlapped' =
                     (overlapped \/ \E u \in Loggers \ {t} : logPc[u] = "read")
          ELSE /\ logPc' = [logPc EXCEPT ![t] = "done"]
               /\ UNCHANGED <<errors, overlapped>>
    /\ UNCHANGED <<errorLog, logged>>
    /\ UNCHANGED <<history, attempt, retryPc, retryResult>>
    /\ UNCHANGED <<batchVars, syncVars, parseVars, findVars, callVars>>

\* errors.append(error_data); errors = errors[-100:]; json.dump(errors, f);
\* a failure is caught by the except clause
LogWrite(t) ==
    /\ logPc[t] = "read"
    /\ \E io \in IoOutcomes :
          /\ errorLog' = IF io = "ok"
                         THEN log_error(errors[t], error_data(t), io)
                         ELSE errorLog
          /\ logged' = IF io = "ok" THEN Append(logged, error_data(t)) ELSE logged
    /\ logPc' = [logPc EXCEPT ![t] = "done"]
    /\ UNCHANGED <<errors, overlapped>>
    /\ UNCHANGED <<history, attempt, retryPc, retryResult>>
    /\ UNCHANGED <<batchVars, syncVars, parseVars, findVars, callVars>>

NextLog == \E t \in Loggers : LogRead(t) \/ LogWrite(t)

LogBegin ==
    InitLog /\ IdleBatch /\ IdleSync /\ IdleParse /\ IdleFind /\ IdleCall

SpecLog == LogBegin /\ [][NextLog]_vars

MaxColumns == 3      \* most columns of a table

\* clean_text
clean_text(text) == IF text = <<>> THEN <<>> ELSE Strip(CollapseSpaces(text))

\* every format of parse_date's list carries a year; the cell texts of
\* the model carry none, so every strptime raises ValueError and the cleaned
\* text is returned
parse_date(date_str) == IF date_str = <<>> THEN <<>> ELSE clean_text(date_str)

extract_home_away(opponent, result) ==
    LET text == Lower(opponent \o <<" ">> \o result)
    IN IF IsSubstring(<<"@">>, text) \/ IsSubstring(<<"a","t"," ">>, text) THEN "away"
       ELSE IF IsSubstring(<<"v","s">>, text) \/ IsSubstring(<<"v","s",".">>, text) THEN "home"
       ELSE "neutral"

\* str.replace(old, '')
RECURSIVE Remove(_, _)
Remove(s, old) ==
    IF s = <<>> THEN <<>>
    ELSE IF StartsWith(s, old) THEN Remove(SubSeq(s, Len(old) + 1, Len(s)), old)
    ELSE <<s[1]>> \o Remove(Tail(s), old)

\* the synonym sets, in the order of the dict
mappings == <<
    [key |-> "date",      variants |-> {<<"d","a","t","e">>, <<"d","t">>}],
    [key |-> "opponent",  variants |-> {<<"o","p","p","o","n","e","n","t">>, <<"o","p","p">>, <<"v","s">>}],
    [key |-> "result",    variants |-> {<<"r","e","s","u","l","t">>, <<"s","c","o","r","e">>, <<"w","/","l">>}],
    [key |-> "ab",        variants |-> {<<"a","b">>, <<"a","t","-","b","a","t","s">>}],
    [key |-> "h",         variants |-> {<<"h">>, <<"h","i","t","s">>}],
    [key |-> "r",         variants |-> {<<"r">>, <<"r","u","n","s">>}],
    [key |-> "rbi",       variants |-> {<<"r","b","i">>, <<"r","b","i","'","s">>}],
    [key |-> "bb",        variants |-> {<<"b","b">>, <<"w","a","l","k","s">>}],
    [key |-> "k",         variants |-> {<<"k">>, <<"s","o">>, <<"s","t","r","i","k","e","o","u","t","s">>}],
    [key |-> "tb",        variants |-> {<<"t","b">>, <<"t","o","t","a","l"," ","b","a","s","e","s">>}],
    [key |-> "player",    variants |-> {<<"p","l","a","y","e","r">>, <<"n","a","m","e">>}],
    [key |-> "number",    variants |-> {<<"#">>, <<"n","o">>, <<"n","u","m">>, <<"j","e","r","s","e","y">>}],
    [key |-> "ip",        variants |-> {<<"i","p">>, <<"i","n","n","i","n","g","s">>}],
    [key |-> "h_allowed", variants |-> {<<"h">>, <<"h","i","t","s"," ","a","l","l","o","w","e","d">>}],
    [key |-> "er",        variants |-> {<<"e","r">>, <<"e","a","r","n","e","d"," ","r","u","n","s">>}] >>

\* the key the inner loop breaks on for one header, "none" when it
\* runs to its end
HeaderKey(header) ==
    LET header_lower == Strip(Lower(header))
        hits == { m \in 1..Len(mappings) :
                    \/ header_lower \in mappings[m].variants
                    \/ \E v \in mappings[m].variants : IsSubstring(v, header_lower) }
    IN IF hits = {} THEN "none"
       ELSE mappings[CHOOSE m \in hits : \A n \in hits : m <= n].key

\* col_map[key] = idx for every header in turn: a later header of the same
\* key replaces an earlier one (idx counts from 0)
create_column_mapping(headers) ==
    LET at(key) == { i \in 1..Len(headers) : HeaderKey(headers[i]) = key }
        keys == { HeaderKey(headers[i]) : i \in 1..Len(headers) } \ {"none"}
    IN [key \in keys |->
          (CHOOSE i \in at(key) : \A j \in at(key) : j <= i) - 1]

get_cell(cells, col_map, key) ==
    IF key \in DOMAIN col_map /\ col_map[key] < Len(cells)
    THEN clean_text(cells[col_map[key] + 1])
    ELSE <<>>

get_int(cells, col_map, key) ==
    LET value == get_cell(cells, col_map, key)
    IN IF value = <<>> \/ int(value).raised THEN PyNone ELSE int(value).value

parse_row(cells, col_map) ==
    LET date_raw == get_cell(cells, col_map, "date")
        opponent == get_cell(cells, col_map, "opponent")
        result == get_cell(cells, col_map, "result")
    IN [date |-> parse_date(date_raw),
        opponent |-> Strip(Remove(Remove(opponent, <<"@">>), <<"v","s">>)),
        home_or_away |-> extract_home_away(opponent, result),
        result |-> result,
        ab |-> get_int(cells, col_map, "ab"),
        h |-> get_int(cells, col_map, "h"),
        r |-> get_int(cells, col_map, "r"),
        rbi |-> get_int(cells, col_map, "rbi"),
        bb |-> get_int(cells, col_map, "bb"),
        k |-> get_int(cells, col_map, "k"),
        tb |-> get_int(cells, col_map, "tb"),
        player_name |-> get_cell(cells, col_map, "player"),
        jersey_number |-> get_cell(cells, col_map, "number")]

\* header texts of game-log tables and the text of one data row under each
Headers == {<<"D","a","t","e">>, <<"O","p","p","o","n","e","n","t">>, <<"A","B">>, <<"R">>, <<"H">>, <<"R","B","I">>, <<"H","R">>}
CellUnder(header) ==
    CASE header = <<"D","a","t","e">> -> <<"M","a","r"," ","4">>
      [] header = <<"O","p","p","o","n","e","n","t">> -> <<"v","s"," ","R","i","c","e">>
      [] header = <<"A","B">> -> <<"5">>
      [] header = <<"R">> -> <<"3">>
      [] header = <<"H">> -> <<"2">>
      [] header = <<"R","B","I">> -> <<"4">>
      [] header = <<"H","R">> -> <<"1">>

\* tables of distinct columns
Tables ==
    { hs \in SeqsUpTo(Headers, MaxColumns) :
        hs # <<>> /\ \A i, j \in 1..Len(hs) : hs[i] = hs[j] => i = j }
RowCalls ==
    { [fn |-> "parse_row", headers |-> hs,
       cells |-> [i \in 1..Len(hs) |-> CellUnder(hs[i])]] : hs \in Tables }

\* parse_game_stats, one data row: col_map = create_column_mapping(headers);
\* game_data = parse_row(cells, col_map)
CallParseRow ==
    /\ callPc = "start"
    /\ call.fn = "parse_row"
    /\ returned' =
          LET col_map == create_column_mapping(call.headers)
          IN [raised |-> FALSE,
              value |-> [col_map |-> col_map,
                         game_data |-> parse_row(call.cells, col_map)]]
    /\ callPc' = "done"
    /\ UNCHANGED call
    /\ UNCHANGED <<batchVars, syncVars, parseVars, findVars, retryVars, logVars>>

\* the key of the synonym set a header belongs to, "none" when it is in
\* none of them
SynonymKey(header) ==
    LET sets == { m \in 1..Len(mappings) :
                    Strip(Lower(header)) \in mappings[m].variants }
    IN IF sets = {} THEN "none"
       ELSE mappings[CHOOSE m \in sets : \A n \in sets : m <= n].key

Permute(s, p) == [i \in 1..Len(s) |-> s[p[i]]]

\* C27: every header is mapped to the key of the synonym set it belongs
\* to and a header in no set is mapped to no key ("H" to h, "HR" not to h,
\* "RBI" to rbi and not to r), and the record parsed from a table is the
\* same for every order of its columns.
C27_HeaderDecidesField ==
    (callPc = "done" /\ call.fn = "parse_row") =>
        LET col_map == returned.value.col_map
            n == Len(call.headers)
        IN /\ \A i \in 1..n :
                SynonymKey(call.headers[i]) # "none" =>
                    /\ SynonymKey(call.headers[i]) \in DOMAIN col_map
                    /\ col_map[SynonymKey(call.headers[i])] = i - 1
           /\ \A key \in DOMAIN col_map :
                SynonymKey(call.headers[col_map[key] + 1]) = key
           /\ \A p \in Permutations(1..n) :
                parse_row(Permute(call.cells, p),
                          create_column_mapping(Permute(call.headers, p)))
                    = returned.value.game_data

\* C28: a call of parse_game_log creates one driver and never a second one,
\* also when it falls back to the generic parser; the driver is not quit
\* while a parser may still use it, and it has been quit exactly once when
\* the call has returned or raised.
C28_DriverQuitExactlyOnce ==
    /\ drivers <= 1
    /\ parsePc \in {"except", "return", "raise"} => (drivers = 1 /\ quits = 0)
    /\ parsePc \in {"returned", "raised"} => (drivers = 1 /\ quits = 1)

\* the platform parser failed, the generic parser ran on the same driver
\* and found games, and the call has returned
C28_Witness ==
    /\ parsePc = "returned"
    /\ platform_type = "sidearm"
    /\ genericRuns = 1
    /\ game_log # <<>>
    /\ drivers = 1 /\ quits = 1

\* the event loop runs every task that is ready and every sleep ends:
\* scrape_batch goes on as long as some step of it is possible
SpecBatchFair == SpecBatch /\ WF_vars(NextBatch)

\* C29: scrape_batch terminates with every player admitted and processed
\* once, every permit released, and the returned list holding one entry per
\* player in input order.
C29_TerminatesWithEveryResult ==
    <>[](/\ gatherPc = "returned"
         /\ \A i \in Tasks : taskPc[i] = "done"
         /\ semaphore = max_concurrent
         /\ batchResults = [i \in Tasks |-> TaskResult(i)])

\* C30: in run_sync a push is attempted only for a player whose scrape
\* returned a non-empty games list; a player record missing one of id, name,
\* number, school is counted as an error without being scraped or pushed;
\* a player whose scrape yields no games is counted as an error with
\* neither a push nor a fallback write.
C30_PushOnlyAfterGames ==
    \A i \in Processed :
        /\ trail[i].push # "none" =>
              (trail[i].scrape = "games" /\ trail[i].payload.games # <<>>)
        /\ ~(required_keys \subseteq players[i].keys) =>
              /\ trail[i].scrape = "skipped"
              /\ trail[i].push = "none" /\ trail[i].fallback = "none"
              /\ trail[i].counted = "error"
        /\ trail[i].scrape \in {"empty", "error"} =>
              /\ trail[i].counted = "error"
              /\ trail[i].push = "none" /\ trail[i].fallback = "none"

\* one cycle with a record missing a key, a scrape without games, a scrape
\* that reported failure, and a player pushed after a scrape with games
C30_Witness ==
    /\ syncPc = "done"
    /\ \E i, j, k \in Processed :
          /\ ~(required_keys \subseteq players[i].keys)
          /\ trail[i].scrape = "skipped"
          /\ trail[j].scrape = "empty" /\ trail[j].counted = "error"
          /\ trail[k].scrape = "games" /\ trail[k].push # "none"

(***************************************************************************)
(* One call of a pure helper: the arguments are drawn from the sets above, *)
(* the action of the helper computes what it returns.                      *)
(***************************************************************************)
Calls ==
    CleanedCalls \cup DetectCalls \cup ConfigDetectCalls \cup MatchCalls
        \cup NormalizeCalls \cup CleanCalls
        \cup DateCalls
        \cup RowCalls

InitCall ==
    /\ call \in Calls
    /\ callPc = "start"
    /\ returned = [raised |-> FALSE, value |-> "none"]

NextCall ==
    \/ CallCleanedGames
    \/ CallDetectPlatform
    \/ CallConfigDetectPlatform
    \/ CallNamesMatch
    \/ CallNormalizeName
    \/ CallCleanStatValue
    \/ CallNormalizeDate
    \/ CallParseRow

CallBegin ==
    InitCall /\ IdleBatch /\ IdleSync /\ IdleParse /\ IdleFind /\ IdleRetry
        /\ IdleLog

SpecCall == CallBegin /\ [][NextCall]_vars

====
